---------------------------- MODULE Spec2Model ----------------------------
(***************************************************************************)
(* A model of the vault synchroniser (vault-scripts): the content-defined  *)
(* chunker of livesync_compat.py, the push engine of vault-push.py and the *)
(* pull engine of vault-pull.py.                                           *)
(*                                                                         *)
(* Several specifications share the module, among them:                    *)
(*   SpecChunk  split_into_chunks run byte by byte on a bounded family of  *)
(*              UTF-8 inputs, then on the two halves of an input cut at    *)
(*              one of its own split points (SpecChunkLive: the same with  *)
(*              fairness, on the shorter inputs);                          *)
(*   Spec       one run of push_documents against a remote store that      *)
(*              other writers change and whose requests may fail;          *)
(*   SpecPull   one run of pull_documents;                                 *)
(*   SpecOrphan one run of delete_orphan_files;                            *)
(*   SpecTools  one run of any of the three tools;                         *)
(*   SpecTrip   one file pushed, then pulled, byte by byte;                *)
(*   SpecRequest  one call of couchdb_request of either script.            *)
(* Integers of TLC are 32-bit, so 32-bit wrapping arithmetic is done on    *)
(* 16-bit limbs: a wide value is given as (hi, lo) = hi * 2^16 + lo.       *)
(***************************************************************************)
EXTENDS Integers, Sequences, FiniteSets, TLC

VARIABLES
    \* ---- split_into_chunks (livesync_compat.py) ----
    content,        \* the input, as its UTF-8 bytes (data)
    pos,            \* loop index (0-based, as in the source)
    start,          \* first byte of the chunk being built (0-based)
    hash_val,       \* rolling hash, signed 32-bit
    chunks,         \* emitted chunks, each a str given as its UTF-8 bytes
    cpc,            \* "start" | "loop" | "done"
    \* ---- the split-point experiment around the chunker ----
    phase,          \* "whole" | "left" | "right" | "end" | "single"
    original,       \* the input of the whole run
    whole_chunks,   \* chunks of the whole input
    split_k,        \* number of whole chunks before the chosen split point
    left_chunks,    \* chunks of original[0..p)
    right_chunks,   \* chunks of original[p..]
    run_ids,        \* the chunk ids process_document returned for each of the three runs
    \* ---- the remote store (CouchDB) ----
    db_docs,        \* path -> file document [exists, rev, mtime, children, by]
    db_chunks,      \* ids of the chunk documents
    chunk_rev,      \* per chunk id, the number of writes the database accepted for it
    others,         \* writes done so far by other writers
    \* ---- push_documents / push_file (vault-push.py) ----
    force,          \* --force
    dry_run,        \* --dry-run
    local_mtime,    \* path -> mtime (ms) of the local file
    ppc,            \* position in push_documents / push_file
    idx,            \* index of the current file in local_files (0 before the loop)
    stats,          \* the counters of push_documents
    remote_docs,    \* result of get_remote_documents: path -> document
    chunk_ids,      \* chunk ids of the file being pushed
    futures,        \* per submitted upload: "queued" | "head" | "put" | "true" | "false" | "raised"
    collected,      \* futures the as_completed loop has taken
    failed_chunks,  \* number of entries of failed_chunks
    file_rev,       \* file_doc['_rev'] (0: none)
    obs,            \* what the run did with the file handled last (requests, result)
    changed_only,   \* pull: --changed-only
    pull_dry_run,   \* pull: --dry-run
    pull_excluded,  \* pull: the paths should_exclude() holds of
    local_files,    \* the vault: path -> [exists, bytes, binary, mtime]
    plc,            \* where pull_documents is
    documents,      \* get_all_documents(): [path, doc] in id order
    docs_to_pull,   \* the documents phase 1 retained
    chunk_cache,    \* ids of the chunk documents batch_fetch_chunks returned
    pidx,           \* phase 4: position in docs_to_pull
    pull_stats,     \* the counters pull_documents returns
    pull_obs,       \* per path: what phase 4 did (missing chunks, the write)
    \* ---- repeated runs ----
    run,            \* number of the push run (1, 2)
    conflicted,     \* the uploads of the current with-block whose PUT was answered 409
    \* ---- delete_orphan_files (vault-pull.py) ----
    fs_files,       \* the files under VAULT_ROOT, by relative path
    fs_dirs,        \* the directories under VAULT_ROOT, by relative path
    fs_before,      \* fs_files when delete_orphan_files was called
    remote,         \* the documents of the database: [id, path, kind]
    path_filter,    \* --path ("" when not given)
    orphan_dry,     \* --dry-run
    opc,            \* "find" | "loop" | "prune" | "done" | "raised"
    orphans,        \* find_orphan_files(): sorted list
    oidx,           \* orphans handled so far
    parent,         \* the directory the pruning walk is at
    orphan_stats,   \* found / deleted / errors
    deleted_files,  \* files unlinked by the run
    removed_dirs,   \* directories removed by the run
    \* ---- the enumeration of the remote documents, run on `remote` ----
    scan_tool,      \* "pull": get_all_documents, "push": get_remote_documents
    scan_q,         \* queries answered so far
    scan_out,       \* pull: documents (the list, as a set)
    scan_dict,      \* push: documents (the dict path -> doc)
    \* ---- pull_documents phase 2 and batch_fetch_chunks (vault-pull.py) ----
    batch_ids,      \* all_chunk_ids, the list
    batch_i,        \* i of  for i in range(0, total, batch_size)
    batch_requests, \* the "keys" of the bulk requests sent, in order
    \* ---- couchdb_request (vault-push.py, vault-pull.py) ----
    req_tool,       \* "push" | "pull": whose couchdb_request is called
    req_resp,       \* the answer of the server: [status, stripped, readable]
    req_pc,         \* "call" | "returned" | "raised"
    req_result,     \* what the call gave: [kind, excerpt, truncated]
    \* ---- one file pushed, then pulled ----
    trip_file,      \* the bytes of the local file before the push
    trip_pc,        \* "read" | "chunk" | "upload" | "meta" | "pushed" | "pulled" | "error"
    trip_chunks,    \* the chunk documents of the store: [id, data]
    trip_doc,       \* the file document of the store: [children, size, type], or none
    trip_puts,      \* chunk uploads issued by the push
    trip_local      \* the local file after the pull: [exists, bytes, binary]

chunkVars == <<content, pos, start, hash_val, chunks, cpc>>
harnessVars == <<phase, original, whole_chunks, split_k, left_chunks, right_chunks, run_ids>>
dbVars == <<db_docs, db_chunks, chunk_rev, others>>
pushVars == <<force, dry_run, local_mtime, ppc, idx, stats, remote_docs, chunk_ids,
              futures, collected, failed_chunks, file_rev, obs>>
pullVars == <<changed_only, pull_dry_run, pull_excluded, local_files, plc, documents, docs_to_pull,
              chunk_cache, pidx, pull_stats, pull_obs>>
runVars == <<run>>
logVars == <<conflicted>>
orphanVars == <<fs_files, fs_dirs, fs_before, remote, path_filter, orphan_dry, opc, orphans,
                oidx, parent, orphan_stats, deleted_files, removed_dirs>>
scanVars == <<scan_tool, scan_q, scan_out, scan_dict>>
batchVars == <<batch_ids, batch_i, batch_requests>>
reqVars == <<req_tool, req_resp, req_pc, req_result>>
tripVars == <<trip_file, trip_pc, trip_chunks, trip_doc, trip_puts, trip_local>>
extraVars == <<reqVars, tripVars>>
moreVars == <<orphanVars, scanVars, batchVars, extraVars>>

-----------------------------------------------------------------------------
(* Constants of livesync_compat.py *)

PRIME == 31
WINDOW_SIZE == 48
MIN_PIECE_SIZE_TEXT == 128
SPLIT_PIECE_COUNT_TEXT == 20
BOUNDARY_PATTERN == 1
DEFAULT_MIN_CHUNK_SIZE == 20
DEFAULT_MAX_PIECE_SIZE == 250

(* Bounds of the input family *)

MaxSeed == 3        \* text inputs: seeds 1..MaxSeed
MaxCells == 8       \* text inputs: 0..MaxCells cells of 12 bytes
MaxBack == 1        \* rule inputs: 640-MaxBack..640 dashes before the character
MaxTail == 1        \* rule inputs: 0..MaxTail dashes after the character
LongCells == 217    \* one long text of LongCells cells: avg = length div 20 > 128

Max(a, b) == IF a >= b THEN a ELSE b
Min(a, b) == IF a <= b THEN a ELSE b

-----------------------------------------------------------------------------
(* 32-bit arithmetic *)

\* to_signed32 of the wide value hi * 2^16 + lo  (n & 0xFFFFFFFF, then the sign)
to_signed32(hi, lo) ==
    LET l == lo % 65536
        h == (hi + (lo \div 65536)) % 65536
    IN  IF h >= 32768 THEN (h - 65536) * 65536 + l ELSE h * 65536 + l

\* Math.imul: the low 32 bits of a * b, signed
imul(a, b) ==
    LET ah == a \div 65536
        al == a % 65536
        bh == b \div 65536
        bl == b % 65536
        q  == al * (bl \div 256)
        r  == al * (bl % 256)
    IN  to_signed32(((ah * bl) % 65536) + ((al * bh) % 65536) + (q \div 256),
                    (q % 256) * 256 + r)

\* to_signed32(a - b) and to_signed32(a + b) for signed 32-bit a, b
sub32(a, b) == to_signed32((a \div 65536) - (b \div 65536), (a % 65536) - (b % 65536))
add32(a, b) == to_signed32((a \div 65536) + (b \div 65536), (a % 65536) + (b % 65536))

\* (hash_val & 0xFFFFFFFF) % m
unsigned_mod(h, m) ==
    ((((h \div 65536) % 65536) % m) * (65536 % m) + (h % 65536)) % m

RECURSIVE PrimePow(_)
PrimePow(k) == IF k = 0 THEN 1 ELSE imul(PrimePow(k - 1), PRIME)

p_pow_w == PrimePow(WINDOW_SIZE - 1)

-----------------------------------------------------------------------------
(* UTF-8 *)

IsContinuation(b) == b >= 128 /\ b < 192          \* (b & 0xc0) == 0x80

CharWidth(b) == IF b < 128 THEN 1 ELSE IF b < 224 THEN 2 ELSE IF b < 240 THEN 3 ELSE 4

REPLACEMENT == <<239, 191, 189>>                   \* U+FFFD

\* bytes.decode('utf-8', errors='replace') of a slice of valid UTF-8, the
\* resulting str given as its UTF-8 bytes: each leading continuation byte and
\* a truncated last character become U+FFFD.
decode_replace(b) ==
    LET n     == Len(b)
        k     == Cardinality({i \in 1..n : \A j \in 1..i : IsContinuation(b[j])})
        leads == {i \in Max(1, n - 3)..n : ~IsContinuation(b[i])}
        last  == IF leads = {} THEN 0 ELSE CHOOSE i \in leads : \A j \in leads : j <= i
        trunc == IF last > 0 /\ last + CharWidth(b[last]) - 1 > n THEN n - last + 1 ELSE 0
    IN  [i \in 1..(3 * k) |-> REPLACEMENT[((i - 1) % 3) + 1]]
        \o SubSeq(b, k + 1, n - trunc)
        \o (IF trunc > 0 THEN REPLACEMENT ELSE <<>>)

-----------------------------------------------------------------------------
(* Chunk size parameters *)

absolute_max_piece_size == DEFAULT_MAX_PIECE_SIZE * 1024

avg_chunk_size_FloorOne(length) == Max(1, length \div SPLIT_PIECE_COUNT_TEXT)

avg_chunk_size(length) == Max(MIN_PIECE_SIZE_TEXT, length \div SPLIT_PIECE_COUNT_TEXT)

max_chunk_size(length) == Min(absolute_max_piece_size, avg_chunk_size(length) * 5)

min_chunk_size(length) ==
    Min(Max(avg_chunk_size(length) \div 4, DEFAULT_MIN_CHUNK_SIZE), max_chunk_size(length))

-----------------------------------------------------------------------------
(* The input family: valid UTF-8 texts *)

\* A text of 12-byte cells "xx가xé😀" whose ASCII bytes vary with the seed.
TextByte(seed, i) ==
    LET o == i % 12
    IN  CASE o = 2 -> 234 [] o = 3 -> 176 [] o = 4 -> 128
          [] o = 6 -> 195 [] o = 7 -> 169
          [] o = 8 -> 240 [] o = 9 -> 159 [] o = 10 -> 152 [] o = 11 -> 128
          [] OTHER -> 32 + ((i * i * seed + 3 * i + 4 * seed) % 95)

TextInput(seed, cells) == [i \in 1..(12 * cells) |-> TextByte(seed, i - 1)]

\* One character of the given UTF-8 width (none for width 0).
WideChar(w) ==
    CASE w = 2 -> <<195, 169>>
      [] w = 3 -> <<234, 176, 128>>
      [] w = 4 -> <<240, 159, 152, 128>>
      [] OTHER -> <<>>

\* A rule of n dashes, one character, m dashes: no hash boundary, so the
\* chunk grows to max_chunk_size.
RuleInput(n, w, m) == [i \in 1..n |-> 45] \o WideChar(w) \o [i \in 1..m |-> 45]

Inputs ==
    {TextInput(s, c) : s \in 1..MaxSeed, c \in 0..MaxCells}
    \cup {TextInput(1, LongCells)}
    \cup {RuleInput(5 * MIN_PIECE_SIZE_TEXT - k, w, m) :
            k \in 0..MaxBack, w \in {0, 2, 3, 4}, m \in 0..MaxTail}

-----------------------------------------------------------------------------
(* split_into_chunks, one loop iteration per step *)

RollHash_NoWindow(h, data, p, s) == add32(imul(h, PRIME), data[p + 1])

\* the rolling hash after the byte at pos
RollHash(h, data, p, s) ==
    LET byte_val == data[p + 1]
    IN  IF p >= s + WINDOW_SIZE
        THEN LET old_byte      == data[p - WINDOW_SIZE + 1]
                 old_byte_term == imul(old_byte, p_pow_w)
             IN  add32(imul(sub32(h, old_byte_term), PRIME), byte_val)
        ELSE add32(imul(h, PRIME), byte_val)

IsBoundaryCandidateLateMax(size, h, length) ==
    \/ /\ size >= min_chunk_size(length)
       /\ unsigned_mod(h, avg_chunk_size(length)) = BOUNDARY_PATTERN
    \/ size > max_chunk_size(length)

IsBoundaryCandidate(size, h, length) ==
    \/ /\ size >= min_chunk_size(length)
       /\ unsigned_mod(h, avg_chunk_size(length)) = BOUNDARY_PATTERN
    \/ size >= max_chunk_size(length)

IsSafeBoundaryAlways(data, p) == TRUE

IsSafeBoundaryThisByte(data, p) == ~IsContinuation(data[p + 1])

IsSafeBoundary(data, p) ==
    ~(p + 1 < Len(data) /\ IsContinuation(data[p + 2]))

\* if not content: return []  /  the loop's initial state
ChunkEnter ==
    /\ cpc = "start"
    /\ chunks' = <<>>
    /\ pos' = 0
    /\ start' = 0
    /\ hash_val' = 0
    /\ cpc' = IF Len(content) = 0 THEN "done" ELSE "loop"
    /\ UNCHANGED <<content, harnessVars, dbVars, pushVars, pullVars, runVars, logVars, moreVars>>

\* one iteration of  while pos < length
ChunkLoop ==
    /\ cpc = "loop"
    /\ pos < Len(content)
    /\ LET h    == RollHash(hash_val, content, pos, start)
           size == pos - start + 1
       IN  /\ hash_val' = h
           /\ IF IsBoundaryCandidate(size, h, Len(content)) /\ IsSafeBoundary(content, pos)
              THEN /\ chunks' = Append(chunks, decode_replace(SubSeq(content, start + 1, pos + 1)))
                   /\ start' = pos + 1
              ELSE UNCHANGED <<chunks, start>>
    /\ pos' = pos + 1
    /\ UNCHANGED <<content, cpc, harnessVars, dbVars, pushVars, pullVars, runVars, logVars, moreVars>>

has_trailing_Always(s, length) == TRUE

\* if start < length:
has_trailing(s, length) == s < length

\* after the loop: the remaining data
ChunkTail ==
    /\ cpc = "loop"
    /\ pos >= Len(content)
    /\ chunks' = IF has_trailing(start, Len(content))
                 THEN Append(chunks, decode_replace(SubSeq(content, start + 1, Len(content))))
                 ELSE chunks
    /\ cpc' = "done"
    /\ UNCHANGED <<content, pos, start, hash_val, harnessVars, dbVars, pushVars, pullVars, runVars, logVars, moreVars>>

-----------------------------------------------------------------------------
(* generate_chunk_id and process_document *)

\* str(n) of a non-negative integer, as bytes
RECURSIVE Decimal(_)
Decimal(n) == IF n < 10 THEN <<48 + n>> ELSE Decimal(n \div 10) \o <<48 + (n % 10)>>

\* len(data) of a str given as its UTF-8 bytes: the number of characters
str_len(data) == Cardinality({i \in DOMAIN data : ~IsContinuation(data[i])})

\* f"{data}-{len(data)}".encode('utf-8')
hash_input(data) == data \o <<45>> \o Decimal(str_len(data))

\* "h:" + int_to_base36(xxhash.xxh64(hash_input).intdigest()).  The digest and
\* its base-36 text are not computed: an id is given by its prefix and by the
\* bytes that were hashed, so two ids are equal when the hashed bytes are.
generate_chunk_id(data) == [prefix |-> "h:", hashed |-> hash_input(data)]

chunk_id_at_Positional(chs, i) == generate_chunk_id(Decimal(i) \o chs[i])

\* chunk_id = generate_chunk_id(chunk), for the i-th chunk
chunk_id_at(chs, i) == generate_chunk_id(chs[i])

\* process_document: the ids of the chunks split_into_chunks returned
process_document_ids(chs) == [i \in DOMAIN chs |-> chunk_id_at(chs, i)]

NoIds == [whole |-> <<>>, left |-> <<>>, right |-> <<>>]

-----------------------------------------------------------------------------
(* The split-point experiment: chunk b, then b[0..p) and b[p..] *)

RECURSIVE Concat(_)
Concat(ss) == IF ss = <<>> THEN <<>> ELSE Concat(SubSeq(ss, 1, Len(ss) - 1)) \o ss[Len(ss)]

\* p, a split point of the whole run: the bytes of its first k chunks
SplitPoint(k) == Len(Concat(SubSeq(whole_chunks, 1, k)))

SplitAt ==
    /\ phase = "whole"
    /\ cpc = "done"
    /\ \E k \in 1..(Len(chunks) - 1) :
          /\ split_k' = k
          /\ whole_chunks' = chunks
          /\ run_ids' = [run_ids EXCEPT !.whole = process_document_ids(chunks)]
          /\ content' = SubSeq(original, 1, Len(Concat(SubSeq(chunks, 1, k))))
    /\ phase' = "left"
    /\ cpc' = "start"
    /\ UNCHANGED <<pos, start, hash_val, chunks, original, left_chunks, right_chunks, dbVars, pushVars, pullVars, runVars, logVars, moreVars>>

LeftDone ==
    /\ phase = "left"
    /\ cpc = "done"
    /\ left_chunks' = chunks
    /\ run_ids' = [run_ids EXCEPT !.left = process_document_ids(chunks)]
    /\ content' = SubSeq(original, SplitPoint(split_k) + 1, Len(original))
    /\ phase' = "right"
    /\ cpc' = "start"
    /\ UNCHANGED <<pos, start, hash_val, chunks, original, whole_chunks, split_k, right_chunks, dbVars, pushVars, pullVars, runVars, logVars, moreVars>>

RightDone ==
    /\ phase = "right"
    /\ cpc = "done"
    /\ right_chunks' = chunks
    /\ run_ids' = [run_ids EXCEPT !.right = process_document_ids(chunks)]
    /\ phase' = "end"
    /\ UNCHANGED <<chunkVars, original, whole_chunks, split_k, left_chunks, dbVars, pushVars, pullVars, runVars, logVars, moreVars>>

\* a document of fewer than two chunks has no split point: process_document
\* returns and nothing else is run on it
WholeOnly ==
    /\ phase = "whole"
    /\ cpc = "done"
    /\ Len(chunks) <= 1
    /\ whole_chunks' = chunks
    /\ run_ids' = [run_ids EXCEPT !.whole = process_document_ids(chunks)]
    /\ phase' = "single"
    /\ UNCHANGED <<chunkVars, original, split_k, left_chunks, right_chunks, dbVars, pushVars,
                   pullVars, runVars, logVars, moreVars>>

-----------------------------------------------------------------------------
(* The remote store *)

LocalPaths == <<"a.md", "b.md">>       \* get_local_files(): the local files in scan order
Paths == {LocalPaths[i] : i \in 1..Len(LocalPaths)}

MAX_WORKERS == 10

MaxChunks == 2      \* a file has 0..MaxChunks chunks, with ids 1..MaxChunks
MaxMtime == 2       \* mtimes are 1..MaxMtime
MaxOther == 2       \* writes by other writers during one run

ChunkIds == 1..MaxChunks

\* what process_document returns for the file read: distinct chunks, or one chunk twice
Contents == {[i \in 1..n |-> i] : n \in 0..MaxChunks} \cup {<<1, 1>>}

\* the mtime field of a document: an integer, the decimal string of one, a
\* string that is no number, or no field
IntMtime(v) == [kind |-> "int", v |-> v]
StrMtime(v) == [kind |-> "str", v |-> v]
BadMtime == [kind |-> "bad", v |-> 0]
NoMtime == [kind |-> "none", v |-> 0]
RemoteMtimes == {IntMtime(MaxMtime), StrMtime(1), BadMtime}

NoDoc == [exists |-> FALSE, rev |-> 0, mtime |-> NoMtime, children |-> <<>>, data |-> <<>>,
          by |-> "none"]

\* the store's answer to PUT of a file document carrying _rev = rev (0: none)
PutDocResult(p, rev) ==
    IF (db_docs[p].exists /\ rev = db_docs[p].rev) \/ (~db_docs[p].exists /\ rev = 0)
    THEN "ok" ELSE "conflict"

\* the tool has a request to the store outstanding
AtRequest ==
    \/ ppc \in {"fetch", "rev", "put", "refetch", "retry"}
    \/ ppc = "upload" /\ \E i \in DOMAIN futures : futures[i] \in {"head", "put"}

\* the file documents a write of another writer can reach before the tool looks
\* at them: all before the scan, then the one of the file being pushed
Touched == IF ppc = "fetch" THEN Paths ELSE {LocalPaths[idx]}

\* the mtime another writer gives its document; the tool reads it in the scan
\* only, so one value, not older than any local file, stands for the later writes
WrittenMtimes == IF ppc = "fetch" THEN RemoteMtimes ELSE {IntMtime(MaxMtime)}

\* other writers: a new chunk, a new revision of a file document, a deletion;
\* a write of theirs takes effect between two requests of the tool
OtherAddChunk ==
    /\ AtRequest
    /\ others < MaxOther
    /\ \E c \in ChunkIds \ db_chunks :
          /\ db_chunks' = db_chunks \cup {c}
          /\ chunk_rev' = [chunk_rev EXCEPT ![c] = @ + 1]
    /\ others' = others + 1
    /\ UNCHANGED <<db_docs, chunkVars, harnessVars, pushVars, pullVars, runVars, logVars, moreVars>>

OtherPutDoc ==
    /\ AtRequest
    /\ others < MaxOther
    /\ \E p \in Touched, m \in WrittenMtimes :
          db_docs' = [db_docs EXCEPT ![p] =
                         [exists |-> TRUE, rev |-> @.rev + 1, mtime |-> m,
                          children |-> <<>>, data |-> <<>>, by |-> "other"]]
    /\ others' = others + 1
    /\ UNCHANGED <<db_chunks, chunk_rev, chunkVars, harnessVars, pushVars, pullVars, runVars, logVars, moreVars>>

OtherDeleteDoc ==
    /\ AtRequest
    /\ others < MaxOther
    /\ \E p \in Touched :
          /\ db_docs[p].exists
          /\ db_docs' = [db_docs EXCEPT ![p] = [NoDoc EXCEPT !.rev = db_docs[p].rev + 1]]
    /\ others' = others + 1
    /\ UNCHANGED <<db_chunks, chunk_rev, chunkVars, harnessVars, pushVars, pullVars, runVars, logVars, moreVars>>

-----------------------------------------------------------------------------
(* push_documents and push_file *)

\* what the run did with the file it handled last
NoObs == [path |-> "", outcome |-> "none", pushed |-> FALSE, chunk_failed |-> FALSE,
          first_conflict |-> FALSE, meta_puts |-> 0, rev_refetches |-> 0]

CurPath == LocalPaths[idx]

\* remote_mtime of the change detection: an integer as it is, a string through int(), else 0
remote_mtime_ms(doc) ==
    CASE doc.mtime.kind = "int" -> doc.mtime.v
      [] doc.mtime.kind = "str" -> doc.mtime.v
      [] OTHER -> 0

ShouldSkipStrict(p) ==
    /\ ~force
    /\ remote_docs[p].exists
    /\ remote_mtime_ms(remote_docs[p]) > local_mtime[p]

\* if not force and remote_doc: ... if remote_mtime >= file_info['mtime']
ShouldSkip(p) ==
    /\ ~force
    /\ remote_docs[p].exists
    /\ remote_mtime_ms(remote_docs[p]) >= local_mtime[p]

upload_chunk_result_AnyReply(r) == TRUE

upload_chunk_result_OkOnly(r) == r = "ok"

\* upload_chunk's value for the reply to its PUT: "ok" | "conflict" | "none"
upload_chunk_result(r) == r = "conflict" \/ r = "ok"

HasFailedNever(n) == FALSE

\* if failed_chunks:
HasFailed(n) == n > 0

\* "created" if not remote_doc else "updated"
Action(p) == IF remote_docs[p].exists THEN "updated" ELSE "created"

Tally_ErrorsUncounted(res) ==
    CASE res = "created" -> [stats EXCEPT !.created = @ + 1]
      [] res = "updated" -> [stats EXCEPT !.updated = @ + 1]
      [] res = "error" -> stats
      [] OTHER -> [stats EXCEPT !.skipped = @ + 1]

\* the if / elif / else on result: stats["created" | "updated" | "errors"] += 1,
\* and stats["skipped"] += 1 for any other value
Tally(res) ==
    CASE res = "created" -> [stats EXCEPT !.created = @ + 1]
      [] res = "updated" -> [stats EXCEPT !.updated = @ + 1]
      [] res = "error" -> [stats EXCEPT !.errors = @ + 1]
      [] OTHER -> [stats EXCEPT !.skipped = @ + 1]

\* the locals of push_file are gone when it returns or raises
LocalsGone ==
    /\ chunk_ids' = <<>>
    /\ futures' = <<>>
    /\ collected' = {}
    /\ failed_chunks' = 0
    /\ file_rev' = 0

\* push_file returns res; push_documents counts it and goes to the next file
Return(res, o) ==
    /\ stats' = Tally(res)
    /\ obs' = [o EXCEPT !.outcome = res]
    /\ idx' = idx + 1
    /\ ppc' = "loop"
    /\ LocalsGone

\* an exception leaves push_file and push_documents
Raise(o) ==
    /\ obs' = [o EXCEPT !.outcome = "raised"]
    /\ ppc' = "raised"
    /\ LocalsGone
    /\ UNCHANGED <<stats, idx>>

\* get_local_files, stats['total']
PushStart ==
    /\ ppc = "start"
    /\ stats' = [stats EXCEPT !.total = Len(LocalPaths)]
    /\ ppc' = IF Len(LocalPaths) = 0 THEN "done" ELSE "fetch"
    /\ UNCHANGED <<force, dry_run, local_mtime, idx, remote_docs, chunk_ids, futures,
                   collected, failed_chunks, file_rev, obs, dbVars, chunkVars, harnessVars, pullVars, runVars, logVars, moreVars>>

\* get_remote_documents: the file documents of the store, or an exception
FetchRemote ==
    /\ ppc = "fetch"
    /\ \E resp \in {"served", "error"} :
          IF resp = "served"
          THEN /\ remote_docs' = [p \in Paths |-> IF db_docs[p].exists THEN db_docs[p] ELSE NoDoc]
               /\ idx' = 1
               /\ ppc' = "loop"
          ELSE /\ ppc' = "raised"
               /\ UNCHANGED <<remote_docs, idx>>
    /\ UNCHANGED <<force, dry_run, local_mtime, stats, chunk_ids, futures, collected,
                   failed_chunks, file_rev, obs, dbVars, chunkVars, harnessVars, pullVars, runVars, logVars, moreVars>>

\* for file_info in local_files: change detection, or the call of push_file
LoopNext ==
    /\ ppc = "loop"
    /\ IF idx > Len(LocalPaths)
       THEN /\ ppc' = "done"
            /\ UNCHANGED <<stats, idx, obs>>
       ELSE IF ShouldSkip(CurPath)
       THEN /\ stats' = [stats EXCEPT !.skipped = @ + 1]
            /\ obs' = [NoObs EXCEPT !.path = CurPath, !.outcome = "skipped"]
            /\ idx' = idx + 1
            /\ ppc' = "loop"
       ELSE /\ obs' = [NoObs EXCEPT !.path = CurPath, !.pushed = TRUE]
            /\ ppc' = "read"
            /\ UNCHANGED <<stats, idx>>
    /\ UNCHANGED <<force, dry_run, local_mtime, remote_docs, chunk_ids, futures, collected,
                   failed_chunks, file_rev, dbVars, chunkVars, harnessVars, pullVars, runVars, logVars, moreVars>>

Submitted_AllAtOnce(n) == [i \in 1..n |-> "head"]

\* the first MAX_WORKERS submitted uploads run, the others wait in the queue
Submitted(n) == [i \in 1..n |-> IF i <= MAX_WORKERS THEN "head" ELSE "queued"]

push_file_dry_run_Default == FALSE

\* push_file(file_info, remote_doc=remote_doc, dry_run=dry_run, ...): the
\* dry_run that push_file gets
push_file_dry_run == dry_run

\* push_file on a file whose chunks are one of cs: read_text, process_document,
\* the dry-run return, the submits
ReadFrom(cs) ==
    /\ ppc = "read"
    /\ \/ Return("error", obs)                    \* read_text raised
       \/ \E c \in cs :
             IF push_file_dry_run
             THEN Return(Action(CurPath), obs)
             ELSE /\ chunk_ids' = c
                  /\ futures' = Submitted(Len(c))
                  /\ collected' = {}
                  /\ failed_chunks' = 0
                  /\ ppc' = "upload"
                  /\ UNCHANGED <<stats, idx, obs, file_rev>>
    /\ UNCHANGED <<force, dry_run, local_mtime, remote_docs, dbVars, chunkVars, harnessVars, pullVars, runVars, logVars, moreVars>>

ReadFile == ReadFrom(Contents)

PoolChunks == 11    \* the long file has PoolChunks chunks, more than MAX_WORKERS

\* a file of PoolChunks distinct chunks
LongContents == {[i \in 1..PoolChunks |-> i]}

\* push_file on the long file
ReadLongFile == ReadFrom(LongContents)

\* a worker that finished upload i with value v takes the next queued upload
Finished(i, v) ==
    LET f      == [futures EXCEPT ![i] = v]
        queued == {j \in DOMAIN f : f[j] = "queued"}
    IN  IF queued = {} THEN f
        ELSE [f EXCEPT ![CHOOSE j \in queued : \A k \in queued : j <= k] = "head"]

\* for future in as_completed(future_to_idx): the loop body for upload i, taken
\* together with the step that completes it
Collect(i, v) ==
    /\ futures' = Finished(i, v)
    /\ collected' = collected \cup {i}
    /\ IF v = "true"
       THEN UNCHANGED <<failed_chunks, obs>>
       ELSE /\ failed_chunks' = failed_chunks + 1
            /\ obs' = [obs EXCEPT !.chunk_failed = TRUE]

\* upload_chunk: couchdb_head
WorkerHead ==
    /\ ppc = "upload"
    /\ \E i \in DOMAIN futures :
          /\ futures[i] = "head"
          /\ \E resp \in {"served", "httperror", "urlerror"} :
                CASE resp = "urlerror" -> Collect(i, "raised")
                  [] resp = "served" /\ chunk_ids[i] \in db_chunks -> Collect(i, "true")
                  [] OTHER ->
                        /\ futures' = [futures EXCEPT ![i] = "put"]
                        /\ UNCHANGED <<collected, failed_chunks, obs>>
    /\ UNCHANGED <<force, dry_run, local_mtime, ppc, idx, stats, remote_docs, chunk_ids,
                   file_rev, dbVars, chunkVars, harnessVars, pullVars, runVars, logVars, moreVars>>

\* the database's answer to a PUT of chunk document c carrying _rev rev (0: no
\* _rev): a new id is created, an existing one is replaced only under its
\* current _rev
PutChunkResult(c, rev) ==
    IF c \in db_chunks
    THEN IF rev = chunk_rev[c] THEN "ok" ELSE "conflict"
    ELSE IF rev = 0 THEN "ok" ELSE "conflict"

chunk_doc_rev_Current(c) == chunk_rev[c]

\* doc = {"_id": chunk_id, "data": chunk_data, "type": "leaf"}: no _rev
chunk_doc_rev(c) == 0

\* upload_chunk: put_document of the chunk document and the value returned
WorkerPut ==
    /\ ppc = "upload"
    /\ \E i \in DOMAIN futures :
          /\ futures[i] = "put"
          /\ \E resp \in {"served", "error", "notfound"} :
                CASE resp = "error" ->
                        /\ Collect(i, "raised")
                        /\ UNCHANGED <<db_chunks, chunk_rev, conflicted>>
                  [] resp = "notfound" ->
                        /\ Collect(i, IF upload_chunk_result("none") THEN "true" ELSE "false")
                        /\ UNCHANGED <<db_chunks, chunk_rev, conflicted>>
                  [] OTHER ->
                        LET c == chunk_ids[i]
                            r == PutChunkResult(c, chunk_doc_rev(c))
                        IN  /\ Collect(i, IF upload_chunk_result(r) THEN "true" ELSE "false")
                            /\ conflicted' = IF r = "conflict" THEN conflicted \cup {i}
                                             ELSE conflicted
                            /\ db_chunks' = db_chunks \cup {c}
                            /\ chunk_rev' = IF r = "ok" THEN [chunk_rev EXCEPT ![c] = @ + 1]
                                            ELSE chunk_rev
    /\ UNCHANGED <<force, dry_run, local_mtime, ppc, idx, stats, remote_docs, chunk_ids,
                   file_rev, db_docs, others, chunkVars, harnessVars, pullVars, runVars, moreVars>>

PoolDrained_FirstResult == collected # {} \/ futures = <<>>

\* the as_completed loop has taken every future, so the with block ends
\* (executor.shutdown(wait=True)) with no upload left
PoolDrained == collected = DOMAIN futures

\* the end of the with block, if failed_chunks, the choice of _rev
UploadDone ==
    /\ ppc = "upload"
    /\ PoolDrained
    /\ conflicted' = {}
    /\ IF HasFailed(failed_chunks)
       THEN Return("error", obs)
       ELSE /\ file_rev' = IF remote_docs[CurPath].exists THEN remote_docs[CurPath].rev ELSE 0
            /\ ppc' = IF remote_docs[CurPath].exists THEN "put" ELSE "rev"
            /\ UNCHANGED <<stats, idx, obs, chunk_ids, futures, collected, failed_chunks>>
    /\ UNCHANGED <<force, dry_run, local_mtime, remote_docs, dbVars, chunkVars, harnessVars, pullVars, runVars, moreVars>>

\* existing_rev = get_document_rev(rel_path)
RevLookup ==
    /\ ppc = "rev"
    /\ \E resp \in {"served", "error"} :
          IF resp = "served"
          THEN /\ file_rev' = IF db_docs[CurPath].exists THEN db_docs[CurPath].rev ELSE 0
               /\ ppc' = "put"
               /\ UNCHANGED <<stats, idx, obs, chunk_ids, futures, collected, failed_chunks>>
          ELSE Raise(obs)
    /\ UNCHANGED <<force, dry_run, local_mtime, remote_docs, dbVars, chunkVars, harnessVars, pullVars, runVars, logVars, moreVars>>

stored_mtime_Seconds(p) == IntMtime(local_mtime[p] \div 1000)

\* "mtime": file_info['mtime'], the local mtime in ms
stored_mtime(p) == IntMtime(local_mtime[p])

\* the file document as push_file builds it, stored under a new revision
Stored(p) ==
    [db_docs EXCEPT ![p] = [exists |-> TRUE, rev |-> @.rev + 1,
                            mtime |-> stored_mtime(p),
                            children |-> chunk_ids, data |-> <<>>, by |-> "tool"]]

\* result = put_document(file_doc), first time
PutMeta ==
    /\ ppc = "put"
    /\ LET o == [obs EXCEPT !.meta_puts = @ + 1]
       IN  \E resp \in {"served", "error", "notfound"} :
              CASE resp = "error" ->
                      /\ Raise(o)
                      /\ UNCHANGED db_docs
                [] resp = "notfound" ->
                      /\ Return("error", o)
                      /\ UNCHANGED db_docs
                [] OTHER ->
                      IF PutDocResult(CurPath, file_rev) = "ok"
                      THEN /\ db_docs' = Stored(CurPath)
                           /\ Return(Action(CurPath), o)
                      ELSE /\ obs' = [o EXCEPT !.first_conflict = TRUE]
                           /\ ppc' = "refetch"
                           /\ UNCHANGED <<db_docs, stats, idx, chunk_ids, futures, collected,
                                          failed_chunks, file_rev>>
    /\ UNCHANGED <<force, dry_run, local_mtime, remote_docs, db_chunks, chunk_rev, others,
                   chunkVars, harnessVars, pullVars, runVars, logVars, moreVars>>

\* rev = get_document_rev(rel_path) after the conflict; if rev: ...
Refetch ==
    /\ ppc = "refetch"
    /\ LET o == [obs EXCEPT !.rev_refetches = @ + 1]
       IN  \E resp \in {"served", "error"} :
              IF resp = "error"
              THEN Raise(o)
              ELSE IF db_docs[CurPath].exists
              THEN /\ file_rev' = db_docs[CurPath].rev
                   /\ obs' = o
                   /\ ppc' = "retry"
                   /\ UNCHANGED <<stats, idx, chunk_ids, futures, collected, failed_chunks>>
              ELSE Return("error", o)             \* result is still the conflict
    /\ UNCHANGED <<force, dry_run, local_mtime, remote_docs, dbVars, chunkVars, harnessVars, pullVars, runVars, logVars, moreVars>>

\* result = put_document(file_doc), the retry
RetryPut ==
    /\ ppc = "retry"
    /\ LET o == [obs EXCEPT !.meta_puts = @ + 1]
       IN  \E resp \in {"served", "error", "notfound"} :
              CASE resp = "error" ->
                      /\ Raise(o)
                      /\ UNCHANGED db_docs
                [] resp = "notfound" ->
                      /\ Return("error", o)
                      /\ UNCHANGED db_docs
                [] OTHER ->
                      IF PutDocResult(CurPath, file_rev) = "ok"
                      THEN /\ db_docs' = Stored(CurPath)
                           /\ Return(Action(CurPath), o)
                      ELSE /\ Return("error", o)
                           /\ UNCHANGED db_docs
    /\ UNCHANGED <<force, dry_run, local_mtime, remote_docs, db_chunks, chunk_rev, others,
                   chunkVars, harnessVars, pullVars, runVars, logVars, moreVars>>

\* the tool is run a second time, without --force, on the same local files;
\* from here on nobody else writes to the database
PushAgain ==
    /\ ppc = "done"
    /\ run = 1
    /\ run' = 2
    /\ others' = MaxOther
    /\ force' = FALSE
    /\ ppc' = "start"
    /\ idx' = 0
    /\ stats' = [total |-> 0, created |-> 0, updated |-> 0, skipped |-> 0, errors |-> 0]
    /\ remote_docs' = [p \in Paths |-> NoDoc]
    /\ obs' = NoObs
    /\ UNCHANGED <<dry_run, local_mtime, chunk_ids, futures, collected, failed_chunks,
                   file_rev, db_docs, db_chunks, chunk_rev, chunkVars, harnessVars,
                   pullVars, logVars, moreVars>>

-----------------------------------------------------------------------------
(* vault-pull.py: try_decode_base64.  Strings are their UTF-8 bytes. *)

NEWLINE == 10
PAD == 61

IsB64Char(c) ==
    \/ c \in 65..90
    \/ c \in 97..122
    \/ c \in 48..57
    \/ c = 43
    \/ c = 47

B64Val(c) ==
    CASE c \in 65..90 -> c - 65
      [] c \in 97..122 -> c - 71
      [] c \in 48..57 -> c + 4
      [] c = 43 -> 62
      [] OTHER -> 63

\* number of "=" at the end of s
Padding(s) ==
    IF Len(s) >= 1 /\ s[Len(s)] = PAD
    THEN IF Len(s) >= 2 /\ s[Len(s) - 1] = PAD THEN 2 ELSE 1
    ELSE 0

\* base64.b64decode(s, validate=True) succeeds
B64Valid(s) ==
    /\ Len(s) > 0
    /\ Len(s) % 4 = 0
    /\ \A i \in 1..(Len(s) - Padding(s)) : IsB64Char(s[i])

\* the bytes of the g-th group of four characters
B64Group(s, g) ==
    LET at(k) == s[4 * (g - 1) + k]
        v(k)  == IF at(k) = PAD THEN 0 ELSE B64Val(at(k))
        b1    == v(1) * 4 + v(2) \div 16
        b2    == (v(2) % 16) * 16 + v(3) \div 4
        b3    == (v(3) % 4) * 64 + v(4)
    IN  IF at(3) = PAD THEN <<b1>> ELSE IF at(4) = PAD THEN <<b1, b2>> ELSE <<b1, b2, b3>>

B64Decode(s) == Concat([g \in 1..(Len(s) \div 4) |-> B64Group(s, g)])

\* bytes.decode('utf-8') succeeds: b is well-formed UTF-8 from position i on
RECURSIVE ValidUtf8From(_, _)
ValidUtf8From(b, i) ==
    IF i > Len(b) THEN TRUE
    ELSE LET c    == b[i]
             w    == CASE c < 128 -> 1
                       [] c \in 194..223 -> 2
                       [] c \in 224..239 -> 3
                       [] c \in 240..244 -> 4
                       [] OTHER -> 0
             lo2  == CASE c = 224 -> 160 [] c = 240 -> 144 [] OTHER -> 128
             hi2  == CASE c = 237 -> 159 [] c = 244 -> 143 [] OTHER -> 191
         IN  /\ w > 0
             /\ i + w - 1 <= Len(b)
             /\ w >= 2 => b[i + 1] \in lo2..hi2
             /\ \A k \in 2..(w - 1) : IsContinuation(b[i + k])
             /\ ValidUtf8From(b, i + w)

\* (decoded_content, is_binary)
try_decode_base64(text) ==
    IF (\E i \in 1..Len(text) : text[i] = NEWLINE) \/ Len(text) < 4
    THEN [bytes |-> text, binary |-> FALSE]
    ELSE IF ~B64Valid(text) THEN [bytes |-> text, binary |-> FALSE]
    ELSE [bytes |-> B64Decode(text), binary |-> ~ValidUtf8From(B64Decode(text), 1)]

-----------------------------------------------------------------------------
(* vault-pull.py: pull_documents *)

\* the data of chunk document c: "bGk=", "cGk=", ... (base64 of "li", "pi", ...)
ChunkData(c) == <<97 + c, 71, 107, 61>>

\* the data field of a document without children: "", "/w==" (one byte 255), "hi\n"
PlainData == {<<>>, <<47, 119, 61, 61>>, <<104, 105, 10>>}

\* the file documents a store can hold at a path when a pull starts
PullDocs ==
    {NoDoc}
    \cup {[exists |-> TRUE, rev |-> 1, mtime |-> m, children |-> c, data |-> <<>>,
           by |-> "other"] : m \in RemoteMtimes, c \in Contents \ {<<>>}}
    \cup {[exists |-> TRUE, rev |-> 1, mtime |-> BadMtime, children |-> <<>>, data |-> d,
           by |-> "other"] : d \in PlainData}

OldBytes == <<111, 108, 100>>           \* "old"
NoFile == [exists |-> FALSE, bytes |-> <<>>, binary |-> FALSE, mtime |-> 0]
LocalStates ==
    {NoFile} \cup {[exists |-> TRUE, bytes |-> OldBytes, binary |-> FALSE, mtime |-> m] :
                      m \in 1..MaxMtime}

\* the time of a write, later than every mtime of the model
Now == MaxMtime + 1

NoPullObs == [handled |-> FALSE, missing |-> 0, written |-> FALSE]

\* phase 1: changed_only and local_path.exists() and remote_mtime <= local_mtime;
\* a string that is no number is caught by the except and the document is pulled
SkipPull(d) ==
    /\ changed_only
    /\ local_files[d.path].exists
    /\ d.doc.mtime.kind \in {"int", "str"}
    /\ d.doc.mtime.v # 0
    /\ d.doc.mtime.v <= local_files[d.path].mtime

\* phase 1: should_exclude(doc_path)
IsExcluded(d) == d.path \in pull_excluded

\* documents = get_all_documents(), stats['total']
GetAllDocuments ==
    /\ plc = "start"
    /\ \E resp \in {"served", "error", "notfound"} :
          IF resp = "served"
          THEN LET found == SelectSeq(LocalPaths, LAMBDA p : db_docs[p].exists)
               IN  /\ documents' = [i \in 1..Len(found) |->
                                       [path |-> found[i], doc |-> db_docs[found[i]]]]
                   /\ pull_stats' = [pull_stats EXCEPT !.total = Len(found)]
                   /\ plc' = "filter"
          ELSE /\ plc' = "raised"        \* RuntimeError, or result.get on None
               /\ UNCHANGED <<documents, pull_stats>>
    /\ UNCHANGED <<changed_only, pull_dry_run, pull_excluded, local_files, docs_to_pull, chunk_cache, pidx,
                   pull_obs, dbVars, pushVars, chunkVars, harnessVars, runVars, logVars, moreVars>>

\* phase 1: the documents to pull and the count of the skipped ones
FilterDocs ==
    /\ plc = "filter"
    /\ docs_to_pull' = SelectSeq(documents, LAMBDA d : ~(IsExcluded(d) \/ SkipPull(d)))
    /\ pull_stats' = [pull_stats EXCEPT
                         !.skipped = Len(documents) - Len(docs_to_pull')]
    /\ plc' = "fetch"
    /\ UNCHANGED <<changed_only, pull_dry_run, pull_excluded, local_files, documents, chunk_cache, pidx,
                   pull_obs, dbVars, pushVars, chunkVars, harnessVars, runVars, logVars, moreVars>>

\* phase 2: the distinct chunk ids of the documents to pull
all_chunk_ids ==
    UNION {{docs_to_pull[i].doc.children[k] : k \in DOMAIN docs_to_pull[i].doc.children} :
              i \in DOMAIN docs_to_pull}

\* phase 3: chunk_cache = batch_fetch_chunks(all_chunk_ids), one batch
FetchChunks ==
    /\ plc = "fetch"
    /\ IF all_chunk_ids = {}
       THEN /\ chunk_cache' = {}
            /\ plc' = "write"
            /\ pidx' = 1
       ELSE \E resp \in {"served", "error", "notfound"} :
               CASE resp = "served" ->
                       /\ chunk_cache' = all_chunk_ids \cap db_chunks
                       /\ plc' = "write"
                       /\ pidx' = 1
                 [] resp = "notfound" ->            \* "returned no result", continue
                       /\ chunk_cache' = {}
                       /\ plc' = "write"
                       /\ pidx' = 1
                 [] OTHER ->
                       /\ plc' = "raised"
                       /\ UNCHANGED <<chunk_cache, pidx>>
    /\ UNCHANGED <<changed_only, pull_dry_run, pull_excluded, local_files, documents, docs_to_pull,
                   pull_stats, pull_obs, dbVars, pushVars, chunkVars, harnessVars, runVars, logVars, moreVars>>

\* missing += 1 for every child that chunk_cache.get() does not find
missing(children) == Cardinality({k \in DOMAIN children : children[k] \notin chunk_cache})

\* ''.join(parts): the data of the children found, in order
joined(children) ==
    LET found == SelectSeq(children, LAMBDA c : c \in chunk_cache)
    IN  Concat([k \in 1..Len(found) |-> ChunkData(found[k])])

\* os.utime with the document's mtime when it is a number, else the time of the write
WrittenMtime(doc) ==
    IF doc.mtime.kind \in {"int", "str"} /\ doc.mtime.v # 0 THEN doc.mtime.v ELSE Now

\* phase 4, one document: assemble, decode, write and count
WriteDoc ==
    /\ plc = "write"
    /\ pidx <= Len(docs_to_pull)
    /\ LET d         == docs_to_pull[pidx]
           assembled == IF d.doc.children = <<>> THEN d.doc.data ELSE joined(d.doc.children)
           decoded   == try_decode_base64(assembled)
           action    == IF local_files[d.path].exists THEN "updated" ELSE "created"
           seen      == [handled |-> TRUE, missing |-> missing(d.doc.children),
                       written |-> FALSE]
       IN  IF pull_dry_run
           THEN /\ pull_stats' = [pull_stats EXCEPT ![action] = @ + 1]
                /\ pull_obs' = [pull_obs EXCEPT ![d.path] = seen]
                /\ UNCHANGED local_files
           ELSE \/ /\ local_files' = [local_files EXCEPT ![d.path] =
                                         [exists |-> TRUE, bytes |-> decoded.bytes,
                                          binary |-> decoded.binary,
                                          mtime |-> WrittenMtime(d.doc)]]
                   /\ pull_stats' = [pull_stats EXCEPT ![action] = @ + 1]
                   /\ pull_obs' = [pull_obs EXCEPT ![d.path] = [seen EXCEPT !.written = TRUE]]
                \/ /\ pull_stats' = [pull_stats EXCEPT !.errors = @ + 1]   \* the write raised
                   /\ pull_obs' = [pull_obs EXCEPT ![d.path] = seen]
                   /\ UNCHANGED local_files
    /\ pidx' = pidx + 1
    /\ UNCHANGED <<changed_only, pull_dry_run, pull_excluded, plc, documents, docs_to_pull, chunk_cache,
                   dbVars, pushVars, chunkVars, harnessVars, runVars, logVars, moreVars>>

\* return stats
PullDone ==
    /\ plc = "write"
    /\ pidx > Len(docs_to_pull)
    /\ plc' = "done"
    /\ UNCHANGED <<changed_only, pull_dry_run, pull_excluded, local_files, documents, docs_to_pull,
                   chunk_cache, pidx, pull_stats, pull_obs, dbVars, pushVars, chunkVars,
                   harnessVars, runVars, logVars, moreVars>>

-----------------------------------------------------------------------------
(* Strings: paths and document ids.  _all_docs orders ids by their bytes. *)

\* the characters of the paths and ids of the model, in byte order
AsciiOrder == "-./0123456789:;ABCDEFGHIJKLMNOPQRSTUVWXYZ_abcdefghijklmnopqrstuvwxyz"

Ord(ch) == CHOOSE i \in 1..Len(AsciiOrder) : SubSeq(AsciiOrder, i, i) = ch

\* "￰": above every character of an id
HIGH == Len(AsciiOrder) + 1

Ords(str) == [i \in 1..Len(str) |-> Ord(SubSeq(str, i, i))]

\* a < b for two keys given by their characters' ranks
KeyLess(a, b) ==
    \E k \in 1..Len(b) :
       /\ \A j \in 1..(k - 1) : j <= Len(a) /\ a[j] = b[j]
       /\ (k > Len(a) \/ a[k] < b[k])

KeyLeq(a, b) == a = b \/ KeyLess(a, b)

\* str.startswith(pre)
StartsWith(str, pre) == Len(pre) <= Len(str) /\ SubSeq(str, 1, Len(pre)) = pre

\* pattern in path
Contains(str, pat) ==
    \E i \in 1..(Len(str) - Len(pat) + 1) : SubSeq(str, i, i + Len(pat) - 1) = pat

\* relative paths: the vault root is the empty path
VAULT_ROOT == ""

Slashes(str) == {i \in 1..Len(str) : SubSeq(str, i, i) = "/"}

\* Path.parent, relative to VAULT_ROOT
ParentOf(pth) ==
    IF Slashes(pth) = {} THEN VAULT_ROOT
    ELSE SubSeq(pth, 1, (CHOOSE i \in Slashes(pth) : \A j \in Slashes(pth) : j <= i) - 1)

\* the directories above a path, VAULT_ROOT left out
Ancestors(pth) == {SubSeq(pth, 1, i - 1) : i \in Slashes(pth)}

\* path_filter.split('/')[0]
FirstComponent(str) ==
    IF Slashes(str) = {} THEN str
    ELSE SubSeq(str, 1, (CHOOSE i \in Slashes(str) : \A j \in Slashes(str) : i <= j) - 1)

\* sorted(): the elements of a set of strings in ascending order
RECURSIVE Sorted(_)
Sorted(S) ==
    IF S = {} THEN <<>>
    ELSE LET m == CHOOSE x \in S : \A y \in S : KeyLeq(Ords(x), Ords(y))
         IN  <<m>> \o Sorted(S \ {m})

-----------------------------------------------------------------------------
(* vault-pull.py: get_all_documents on a database given as a set of documents
   [id, path, kind]: path is "" when the document has no 'path', kind tells
   whether it has 'children', 'data' or neither *)

\* the rows of _all_docs?startkey=..&endkey=.. (both inclusive; "" for absent)
RangeQuery(docs, startkey, endkey) ==
    {d \in docs : /\ startkey = <<>> \/ KeyLeq(startkey, Ords(d.id))
                  /\ endkey = <<>> \/ KeyLeq(Ords(d.id), endkey)}

queries_SecondFromI(filter) ==
    <<[startkey |-> <<>>, endkey |-> Ords("h:")], [startkey |-> Ords("i"), endkey |-> <<>>]>>

\* queries: the key ranges asked for
queries(filter) ==
    IF filter # ""
    THEN <<[startkey |-> Ords(filter), endkey |-> Ords(filter) \o <<HIGH>>]>>
    ELSE <<[startkey |-> <<>>, endkey |-> Ords("h:")],
           [startkey |-> Ords("h;"), endkey |-> <<>>]>>

\* the three tests on a row's doc
IsRetained(d) ==
    /\ ~StartsWith(d.id, "h:")
    /\ ~StartsWith(d.id, "_")
    /\ d.kind \in {"children", "data"}

\* the documents one query adds
QueryDocuments(docs, q) == {d \in RangeQuery(docs, q.startkey, q.endkey) : IsRetained(d)}

get_all_documents(docs, filter) ==
    UNION {QueryDocuments(docs, queries(filter)[i]) : i \in DOMAIN queries(filter)}

-----------------------------------------------------------------------------
(* The enumeration, one query per step: get_all_documents (vault-pull.py) and
   get_remote_documents (vault-push.py) *)

MaxIdLen == 2       \* the ids of the varying document have 1..MaxIdLen characters

IdChars == {"/", ":", ";", "_", "h", "i"}

RECURSIVE IdsUpTo(_)
IdsUpTo(n) ==
    IF n = 0 THEN {""}
    ELSE IdsUpTo(n - 1) \cup {str \o ch : str \in IdsUpTo(n - 1), ch \in IdChars}

\* the documents the varying document is drawn from
ScanDocs == {[id |-> i, path |-> "", kind |-> k] :
                i \in IdsUpTo(MaxIdLen) \ {""}, k \in {"children", "data", "none"}}

\* documents every database of the enumeration holds: a file, a chunk, a
\* design document, and a file whose id has a leading "/"
Background ==
    {[id |-> "Notes/a.md", path |-> "Notes/a.md", kind |-> "children"],
     [id |-> "h:abc", path |-> "", kind |-> "data"],
     [id |-> "_design/x", path |-> "", kind |-> "data"],
     [id |-> "/h", path |-> "", kind |-> "children"]}

\* doc_path = doc.get('path', doc_id), without a leading "/"
doc_path(d) ==
    LET pth == IF d.path = "" THEN d.id ELSE d.path
    IN  IF StartsWith(pth, "/") THEN SubSeq(pth, 2, Len(pth)) ELSE pth

\* documents[path] = doc for the rows of one query, in key order
DictAfter(dict, docs) ==
    [pth \in DOMAIN dict \cup {doc_path(d) : d \in docs} |->
        IF \E d \in docs : doc_path(d) = pth
        THEN CHOOSE d \in docs :
                /\ doc_path(d) = pth
                /\ \A e \in docs : doc_path(e) = pth => KeyLeq(Ords(e.id), Ords(d.id))
        ELSE dict[pth]]

\* get_all_documents: one pass of  for query in queries
PullQuery ==
    /\ scan_tool = "pull"
    /\ scan_q < Len(queries(path_filter))
    /\ scan_out' = scan_out \cup QueryDocuments(remote, queries(path_filter)[scan_q + 1])
    /\ scan_q' = scan_q + 1
    /\ UNCHANGED <<scan_tool, scan_dict, orphanVars, chunkVars, harnessVars, dbVars, pushVars,
                   pullVars, runVars, logVars, batchVars,
                   extraVars>>

\* get_remote_documents: one pass of  for query in queries
PushQuery ==
    /\ scan_tool = "push"
    /\ scan_q < Len(queries(""))
    /\ scan_dict' = DictAfter(scan_dict, QueryDocuments(remote, queries("")[scan_q + 1]))
    /\ scan_q' = scan_q + 1
    /\ UNCHANGED <<scan_tool, scan_out, orphanVars, chunkVars, harnessVars, dbVars, pushVars,
                   pullVars, runVars, logVars, batchVars,
                   extraVars>>

-----------------------------------------------------------------------------
(* vault-pull.py: find_orphan_files and delete_orphan_files *)

EXCLUDE_PATTERNS == {".obsidian/", ".git/", ".DS_Store", "node_modules/", "scripts/"}

SYNC_DIRECTORIES == {"workspace", "workspace-vibe", "workspace-ext", "articles", "Notes",
                     "TaskManager"}

should_exclude(pth) == \E pattern \in EXCLUDE_PATTERNS : Contains(pth, pattern)

\* the files a tree can hold
LocalUniverse == {"Notes/a.md", "Notes/sub/b.md", "Notes/sub/deep/c.md",
                  "articles/scripts/d.md", "articles/e.md", "misc/f.md"}

\* directories that hold no file
EmptyDirs == {"articles/drafts"}

\* the documents a database can hold
RemoteUniverse ==
    {[id |-> "Notes/a.md", path |-> "Notes/a.md", kind |-> "children"],
     [id |-> "notes/sub/b.md", path |-> "Notes/sub/b.md", kind |-> "children"],
     [id |-> "Notes/sub/deep/c.md", path |-> "/Notes/sub/deep/c.md", kind |-> "data"],
     [id |-> "articles/e.md", path |-> "", kind |-> "none"]}

PathFilters == {"", "Notes", "Notes/sub"}

\* get_local_files
get_local_files(filter) ==
    {f \in fs_files :
        \E sync_dir \in SYNC_DIRECTORIES :
           /\ sync_dir \in fs_dirs
           /\ filter = "" \/ StartsWith(sync_dir, FirstComponent(filter))
           /\ StartsWith(f, sync_dir \o "/")
           /\ ~should_exclude(f)
           /\ filter = "" \/ StartsWith(f, filter)}

\* find_orphan_files
find_orphan_files(filter) ==
    LET remote_paths == {doc_path(d) : d \in get_all_documents(remote, filter)}
    IN  Sorted(get_local_files(filter) \ remote_paths)

IsEmptyDir_NoFile(d) == \A f \in fs_files : ParentOf(f) # d

\* not any(parent.iterdir())
IsEmptyDir(d) == \A x \in fs_files \cup fs_dirs : ParentOf(x) # d

\* orphans = find_orphan_files(...); an error of the request is not caught
OrphanFind ==
    /\ opc = "find"
    /\ \E resp \in {"served", "error"} :
          IF resp = "error"
          THEN /\ opc' = "raised"
               /\ UNCHANGED <<orphans, orphan_stats>>
          ELSE /\ orphans' = find_orphan_files(path_filter)
               /\ orphan_stats' = [orphan_stats EXCEPT !.found = Len(orphans')]
               /\ opc' = IF orphans' = <<>> THEN "done" ELSE "loop"
    /\ UNCHANGED <<fs_files, fs_dirs, fs_before, remote, path_filter, orphan_dry, oidx, parent,
                   deleted_files, removed_dirs, chunkVars, harnessVars, dbVars, pushVars,
                   pullVars, runVars, logVars, scanVars, batchVars,
                   extraVars>>

\* for rel_path in orphans: the dry-run count, or the unlink
OrphanNext ==
    /\ opc = "loop"
    /\ IF oidx >= Len(orphans)
       THEN /\ opc' = "done"
            /\ UNCHANGED <<fs_files, oidx, parent, orphan_stats, deleted_files>>
       ELSE LET rel_path == orphans[oidx + 1]
            IN  IF orphan_dry
                THEN /\ orphan_stats' = [orphan_stats EXCEPT !.deleted = @ + 1]
                     /\ oidx' = oidx + 1
                     /\ UNCHANGED <<fs_files, opc, parent, deleted_files>>
                ELSE IF rel_path \in fs_files
                THEN /\ fs_files' = fs_files \ {rel_path}
                     /\ deleted_files' = deleted_files \cup {rel_path}
                     /\ orphan_stats' = [orphan_stats EXCEPT !.deleted = @ + 1]
                     /\ parent' = ParentOf(rel_path)
                     /\ opc' = "prune"
                     /\ UNCHANGED oidx
                ELSE /\ oidx' = oidx + 1
                     /\ UNCHANGED <<fs_files, opc, parent, orphan_stats, deleted_files>>
    /\ UNCHANGED <<fs_dirs, fs_before, remote, path_filter, orphan_dry, orphans, removed_dirs,
                   chunkVars, harnessVars, dbVars, pushVars, pullVars, runVars, logVars,
                   scanVars, batchVars,
                   extraVars>>

\* one iteration of  while parent != VAULT_ROOT
OrphanPrune ==
    /\ opc = "prune"
    /\ IF parent = VAULT_ROOT
       THEN /\ opc' = "loop"
            /\ oidx' = oidx + 1
            /\ UNCHANGED <<fs_dirs, parent, removed_dirs>>
       ELSE /\ IF parent \in fs_dirs /\ IsEmptyDir(parent)
               THEN /\ fs_dirs' = fs_dirs \ {parent}
                    /\ removed_dirs' = removed_dirs \cup {parent}
               ELSE UNCHANGED <<fs_dirs, removed_dirs>>
            /\ parent' = ParentOf(parent)
            /\ UNCHANGED <<opc, oidx>>
    /\ UNCHANGED <<fs_files, fs_before, remote, path_filter, orphan_dry, orphans, orphan_stats,
                   deleted_files, chunkVars, harnessVars, dbVars, pushVars, pullVars, runVars,
                   logVars, scanVars, batchVars,
                   extraVars>>

-----------------------------------------------------------------------------
(* vault-pull.py: pull_documents phase 2 and batch_fetch_chunks, one bulk
   request per step, on documents with long children lists *)

batch_size == 500

BatchSlack == 1     \* children lists have 0..BatchSlack ids or batch_size -/+ BatchSlack

ChildCounts == (0..BatchSlack) \cup ((batch_size - BatchSlack)..(batch_size + BatchSlack))

\* the children of all documents to pull, in the order phase 2 visits them
referenced ==
    Concat([i \in DOMAIN docs_to_pull |-> docs_to_pull[i].doc.children])

seen_order_KeepAll(ids) == ids

\* if chunk_id not in seen_ids: append: the first occurrence of each id, in order
seen_order(ids) ==
    LET at   == [i \in DOMAIN ids |-> <<i, ids[i]>>]
        kept == SelectSeq(at, LAMBDA pr : \A j \in 1..(pr[1] - 1) : ids[j] # pr[2])
    IN  [k \in DOMAIN kept |-> kept[k][2]]

\* phase 2, and phase 3 up to the call: if all_chunk_ids
CollectIds ==
    /\ plc = "fetch"
    /\ batch_ids' = seen_order(referenced)
    /\ batch_i' = 0
    /\ plc' = IF batch_ids' = <<>> THEN "fetched" ELSE "batch"
    /\ UNCHANGED <<batch_requests, changed_only, pull_dry_run, pull_excluded, local_files, documents,
                   docs_to_pull, chunk_cache, pidx, pull_stats, pull_obs, dbVars, pushVars,
                   chunkVars, harnessVars, runVars, logVars, orphanVars, scanVars,
                   extraVars>>

\* one iteration of  for i in range(0, total, batch_size), or the return
BatchFetch ==
    /\ plc = "batch"
    /\ IF batch_i >= Len(batch_ids)
       THEN /\ plc' = "fetched"
            /\ UNCHANGED <<batch_i, batch_requests, chunk_cache>>
       ELSE LET batch == SubSeq(batch_ids, batch_i + 1,
                                Min(batch_i + batch_size, Len(batch_ids)))
            IN  /\ batch_requests' = Append(batch_requests, batch)
                /\ \E resp \in {"served", "error", "notfound"} :
                      CASE resp = "served" ->
                              /\ chunk_cache' = chunk_cache \cup
                                    {batch[k] : k \in {n \in DOMAIN batch : batch[n] \in db_chunks}}
                              /\ batch_i' = batch_i + batch_size
                              /\ UNCHANGED plc
                        [] resp = "notfound" ->          \* "returned no result", continue
                              /\ batch_i' = batch_i + batch_size
                              /\ UNCHANGED <<plc, chunk_cache>>
                        [] OTHER ->
                              /\ plc' = "raised"
                              /\ UNCHANGED <<batch_i, chunk_cache>>
    /\ UNCHANGED <<batch_ids, changed_only, pull_dry_run, pull_excluded, local_files, documents,
                   docs_to_pull, pidx, pull_stats, pull_obs, dbVars, pushVars, chunkVars,
                   harnessVars, runVars, logVars, orphanVars, scanVars,
                   extraVars>>

-----------------------------------------------------------------------------
(* Specifications *)

vars == <<chunkVars, harnessVars, dbVars, pushVars, pullVars, runVars, logVars, moreVars>>

ChunkerIdle ==
    /\ content = <<>>
    /\ original = <<>>
    /\ pos = 0
    /\ start = 0
    /\ hash_val = 0
    /\ chunks = <<>>
    /\ cpc = "idle"
    /\ phase = "idle"
    /\ whole_chunks = <<>>
    /\ split_k = 0
    /\ left_chunks = <<>>
    /\ right_chunks = <<>>
    /\ run_ids = NoIds

StoreEmpty ==
    /\ db_docs = [p \in Paths |-> NoDoc]
    /\ db_chunks = {}
    /\ chunk_rev = [c \in ChunkIds |-> 0]
    /\ others = 0

PushIdle ==
    /\ force = FALSE
    /\ dry_run = FALSE
    /\ local_mtime = [p \in Paths |-> 1]
    /\ ppc = "idle"
    /\ idx = 0
    /\ stats = [total |-> 0, created |-> 0, updated |-> 0, skipped |-> 0, errors |-> 0]
    /\ remote_docs = [p \in Paths |-> NoDoc]
    /\ chunk_ids = <<>>
    /\ futures = <<>>
    /\ collected = {}
    /\ failed_chunks = 0
    /\ file_rev = 0
    /\ obs = NoObs

RunIdle == run = 1 /\ conflicted = {}

PullIdle ==
    /\ changed_only = FALSE
    /\ pull_dry_run = FALSE
    /\ pull_excluded = {}
    /\ local_files = [p \in Paths |-> NoFile]
    /\ plc = "idle"
    /\ documents = <<>>
    /\ docs_to_pull = <<>>
    /\ chunk_cache = {}
    /\ pidx = 0
    /\ pull_stats = [total |-> 0, created |-> 0, updated |-> 0, skipped |-> 0, errors |-> 0]
    /\ pull_obs = [p \in Paths |-> NoPullObs]

OrphanIdle ==
    /\ fs_files = {}
    /\ fs_dirs = {}
    /\ fs_before = {}
    /\ remote = {}
    /\ path_filter = ""
    /\ orphan_dry = FALSE
    /\ opc = "idle"
    /\ orphans = <<>>
    /\ oidx = 0
    /\ parent = VAULT_ROOT
    /\ orphan_stats = [found |-> 0, deleted |-> 0, errors |-> 0]
    /\ deleted_files = {}
    /\ removed_dirs = {}

ScanIdle ==
    /\ scan_tool = "idle"
    /\ scan_q = 0
    /\ scan_out = {}
    /\ scan_dict = <<>>

BatchIdle ==
    /\ batch_ids = <<>>
    /\ batch_i = 0
    /\ batch_requests = <<>>

NoResp == [status |-> 200, stripped |-> 0, readable |-> TRUE]
NoResult == [kind |-> "none", excerpt |-> 0, truncated |-> FALSE]

RequestIdle ==
    /\ req_tool = "idle"
    /\ req_resp = NoResp
    /\ req_pc = "idle"
    /\ req_result = NoResult

NoTripDoc == [absent |-> TRUE]
NoTripFile == [exists |-> FALSE, bytes |-> <<>>, binary |-> FALSE]

TripIdle ==
    /\ trip_file = <<>>
    /\ trip_pc = "idle"
    /\ trip_chunks = {}
    /\ trip_doc = NoTripDoc
    /\ trip_puts = 0
    /\ trip_local = NoTripFile

ExtraIdle == RequestIdle /\ TripIdle

MoreIdle == OrphanIdle /\ ScanIdle /\ BatchIdle /\ ExtraIdle

InitChunk ==
    /\ content \in Inputs
    /\ original = content
    /\ pos = 0
    /\ start = 0
    /\ hash_val = 0
    /\ chunks = <<>>
    /\ cpc = "start"
    /\ phase = "whole"
    /\ whole_chunks = <<>>
    /\ split_k = 0
    /\ left_chunks = <<>>
    /\ right_chunks = <<>>
    /\ run_ids = NoIds
    /\ StoreEmpty
    /\ PushIdle
    /\ PullIdle
    /\ RunIdle
    /\ MoreIdle

NextChunk ==
    \/ ChunkEnter
    \/ ChunkLoop
    \/ ChunkTail
    \/ SplitAt
    \/ LeftDone
    \/ RightDone
    \/ WholeOnly

SpecChunk == InitChunk /\ [][NextChunk]_vars

\* a call that was made runs on: the interpreter takes the next step of the
\* function, and of its caller, as long as there is one.  The inputs are the
\* texts of up to MaxCells cells.
InitChunkLive == InitChunk /\ Len(content) <= 12 * MaxCells
SpecChunkLive == InitChunkLive /\ [][NextChunk]_vars /\ WF_vars(NextChunk)

Init ==
    /\ ChunkerIdle
    /\ StoreEmpty
    /\ force \in BOOLEAN
    /\ dry_run \in BOOLEAN
    /\ \E m \in 1..MaxMtime : local_mtime = [p \in Paths |-> m]
    /\ ppc = "start"
    /\ idx = 0
    /\ stats = [total |-> 0, created |-> 0, updated |-> 0, skipped |-> 0, errors |-> 0]
    /\ remote_docs = [p \in Paths |-> NoDoc]
    /\ chunk_ids = <<>>
    /\ futures = <<>>
    /\ collected = {}
    /\ failed_chunks = 0
    /\ file_rev = 0
    /\ obs = NoObs
    /\ PullIdle
    /\ RunIdle
    /\ MoreIdle

Next ==
    \/ PushStart
    \/ FetchRemote
    \/ LoopNext
    \/ ReadFile
    \/ WorkerHead
    \/ WorkerPut
    \/ UploadDone
    \/ RevLookup
    \/ PutMeta
    \/ Refetch
    \/ RetryPut
    \/ OtherAddChunk
    \/ OtherPutDoc
    \/ OtherDeleteDoc

Spec == Init /\ [][Next]_vars

\* two runs of the tool in a row
NextTwice ==
    \/ PushStart
    \/ FetchRemote
    \/ LoopNext
    \/ ReadFile
    \/ WorkerHead
    \/ WorkerPut
    \/ UploadDone
    \/ RevLookup
    \/ PutMeta
    \/ Refetch
    \/ RetryPut
    \/ OtherAddChunk
    \/ OtherPutDoc
    \/ OtherDeleteDoc
    \/ PushAgain

\* both runs are real pushes (no --dry-run) without --force
InitTwice == Init /\ ~force /\ ~dry_run
SpecTwice == InitTwice /\ [][NextTwice]_vars

InitPullOn(exclusions) ==
    /\ ChunkerIdle
    /\ PushIdle
    /\ db_docs \in [Paths -> PullDocs]
    /\ db_chunks \in SUBSET ChunkIds
    /\ chunk_rev = [c \in ChunkIds |-> IF c \in db_chunks THEN 1 ELSE 0]
    /\ others = 0
    /\ changed_only \in BOOLEAN
    /\ pull_dry_run \in BOOLEAN
    /\ pull_excluded \in exclusions
    /\ local_files \in [Paths -> LocalStates]
    /\ plc = "start"
    /\ documents = <<>>
    /\ docs_to_pull = <<>>
    /\ chunk_cache = {}
    /\ pidx = 0
    /\ pull_stats = [total |-> 0, created |-> 0, updated |-> 0, skipped |-> 0, errors |-> 0]
    /\ pull_obs = [p \in Paths |-> NoPullObs]
    /\ RunIdle
    /\ MoreIdle

\* a vault none of whose paths is excluded
InitPull == InitPullOn({{}})

NextPull ==
    \/ GetAllDocuments
    \/ FilterDocs
    \/ FetchChunks
    \/ WriteDoc
    \/ PullDone

SpecPull == InitPull /\ [][NextPull]_vars

InitOrphan ==
    /\ ChunkerIdle
    /\ StoreEmpty
    /\ PushIdle
    /\ PullIdle
    /\ RunIdle
    /\ ScanIdle
    /\ ExtraIdle
    /\ BatchIdle
    /\ fs_files \in SUBSET LocalUniverse
    /\ fs_dirs = UNION {Ancestors(f) : f \in fs_files} \cup EmptyDirs
                    \cup UNION {Ancestors(d) : d \in EmptyDirs}
    /\ fs_before = fs_files
    /\ remote \in SUBSET RemoteUniverse
    /\ path_filter \in PathFilters
    /\ orphan_dry \in BOOLEAN
    /\ opc = "find"
    /\ orphans = <<>>
    /\ oidx = 0
    /\ parent = VAULT_ROOT
    /\ orphan_stats = [found |-> 0, deleted |-> 0, errors |-> 0]
    /\ deleted_files = {}
    /\ removed_dirs = {}

NextOrphan ==
    \/ OrphanFind
    \/ OrphanNext
    \/ OrphanPrune

SpecOrphan == InitOrphan /\ [][NextOrphan]_vars

InitScan ==
    /\ ChunkerIdle
    /\ StoreEmpty
    /\ PushIdle
    /\ PullIdle
    /\ RunIdle
    /\ fs_files = {}
    /\ fs_dirs = {}
    /\ fs_before = {}
    /\ \E d \in ScanDocs : remote = Background \cup {d}
    /\ path_filter = ""
    /\ orphan_dry = FALSE
    /\ opc = "idle"
    /\ orphans = <<>>
    /\ oidx = 0
    /\ parent = VAULT_ROOT
    /\ orphan_stats = [found |-> 0, deleted |-> 0, errors |-> 0]
    /\ deleted_files = {}
    /\ removed_dirs = {}
    /\ scan_tool \in {"pull", "push"}
    /\ scan_q = 0
    /\ scan_out = {}
    /\ ExtraIdle
    /\ scan_dict = <<>>
    /\ BatchIdle

NextScan ==
    \/ PullQuery
    \/ PushQuery

SpecScan == InitScan /\ [][NextScan]_vars

\* a document of n children with the ids first..first+n-1, the first id once
\* more at the end when dup
LongDoc(first, n, dup) ==
    [NoDoc EXCEPT !.exists = TRUE, !.rev = 1, !.mtime = IntMtime(1), !.by = "other",
                  !.children = [k \in 1..n |-> first + k - 1]
                               \o (IF dup /\ n > 0 THEN <<first>> ELSE <<>>)]

\* the state of pull_documents before phase 1, for two documents that share
\* `shared` chunk ids; the chunks with an even id exist
InitBatch ==
    /\ ChunkerIdle
    /\ PushIdle
    /\ RunIdle
    /\ OrphanIdle
    /\ ExtraIdle
    /\ ScanIdle
    /\ BatchIdle
    /\ db_docs = [p \in Paths |-> NoDoc]
    /\ chunk_rev = [c \in ChunkIds |-> 0]
    /\ others = 0
    /\ \E n1 \in ChildCounts, n2 \in ChildCounts, shared \in 0..BatchSlack, dup \in BOOLEAN :
          /\ shared <= n1
          /\ documents = <<[path |-> LocalPaths[1], doc |-> LongDoc(1, n1, dup)],
                           [path |-> LocalPaths[2], doc |-> LongDoc(n1 - shared + 1, n2, FALSE)]>>
          /\ db_chunks = {c \in 1..(n1 + n2) : c % 2 = 0}
    /\ changed_only \in BOOLEAN
    /\ pull_dry_run = FALSE
    /\ pull_excluded = {}
    /\ \E f \in LocalStates : local_files = [p \in Paths |-> IF p = LocalPaths[1] THEN f ELSE NoFile]
    /\ plc = "filter"
    /\ docs_to_pull = <<>>
    /\ chunk_cache = {}
    /\ pidx = 0
    /\ pull_stats = [total |-> 2, created |-> 0, updated |-> 0, skipped |-> 0, errors |-> 0]
    /\ pull_obs = [p \in Paths |-> NoPullObs]

NextBatch ==
    \/ FilterDocs
    \/ CollectIds
    \/ BatchFetch

SpecBatch == InitBatch /\ [][NextBatch]_vars

\* no request of the run fails: every upload that has returned, returned true
Reliable == \A i \in DOMAIN futures : futures[i] \notin {"false", "raised"}

\* push_file is called for the first file, a long one, of a run without
\* --dry-run; the database is empty and nobody else writes
InitPool ==
    /\ ChunkerIdle
    /\ PullIdle
    /\ RunIdle
    /\ MoreIdle
    /\ db_docs = [p \in Paths |-> NoDoc]
    /\ db_chunks = {}
    /\ chunk_rev = [c \in 1..PoolChunks |-> 0]
    /\ others = 0
    /\ force = FALSE
    /\ dry_run = FALSE
    /\ local_mtime = [p \in Paths |-> 1]
    /\ ppc = "read"
    /\ idx = 1
    /\ stats = [total |-> Len(LocalPaths), created |-> 0, updated |-> 0, skipped |-> 0,
                errors |-> 0]
    /\ remote_docs = [p \in Paths |-> NoDoc]
    /\ chunk_ids = <<>>
    /\ futures = <<>>
    /\ collected = {}
    /\ failed_chunks = 0
    /\ file_rev = 0
    /\ obs = [NoObs EXCEPT !.path = LocalPaths[1], !.pushed = TRUE]

PoolRead == ReadLongFile /\ ppc' = "upload"
PoolHead == WorkerHead /\ Reliable'
PoolPut == WorkerPut /\ Reliable'

NextPool ==
    \/ PoolRead
    \/ PoolHead
    \/ PoolPut
    \/ UploadDone

SpecPool == InitPool /\ [][NextPool]_vars

-----------------------------------------------------------------------------
(* Claims about split_into_chunks (checked under SpecChunk) *)

ChunkLens == [i \in 1..Len(chunks) |-> Len(chunks[i])]

\* C6: when split_into_chunks returns, the chunks concatenated in order are
\* exactly the input: no byte lost, duplicated or replaced by U+FFFD.
C6_ConcatIsInput == cpc = "done" => Concat(chunks) = content

\* C6 witness: an input with multi-byte characters was cut into three or more chunks.
C6_Witness ==
    /\ cpc = "done"
    /\ Len(chunks) >= 3
    /\ \E i \in 1..Len(content) : content[i] >= 128

\* C7 as stated: every chunk but the last has min_chunk <= length <= max_chunk,
\* the last has 1 <= length <= max_chunk.
C7_Original ==
    cpc = "done" =>
        \A i \in 1..Len(chunks) :
            /\ Len(chunks[i]) <= max_chunk_size(Len(content))
            /\ Len(chunks[i]) >= (IF i < Len(chunks) THEN min_chunk_size(Len(content)) ELSE 1)

\* C7 amended: every chunk but the last has length >= min_chunk, the last >= 1,
\* and every chunk has length <= max_chunk + 3; a chunk longer than max_chunk
\* ends with the last byte of a multi-byte character (the candidates at sizes
\* max_chunk.. were rejected while the next byte was a continuation byte).
C7_SizeBounds ==
    cpc = "done" =>
        \A i \in 1..Len(chunks) :
            /\ Len(chunks[i]) <= max_chunk_size(Len(content)) + 3
            /\ Len(chunks[i]) > max_chunk_size(Len(content))
                  => IsContinuation(chunks[i][Len(chunks[i])])
            /\ Len(chunks[i]) >= (IF i < Len(chunks) THEN min_chunk_size(Len(content)) ELSE 1)

\* C7 witness: a finished run with a chunk of max_chunk + 3 bytes.
C7_Witness ==
    /\ cpc = "done"
    /\ \E i \in 1..Len(chunks) : Len(chunks[i]) = max_chunk_size(Len(content)) + 3

\* C8: no chunk boundary lies immediately before a UTF-8 continuation byte
\* (start is every boundary in turn).
C8_NoSplitBeforeContinuation ==
    (cpc \in {"loop", "done"} /\ start < Len(content)) => ~IsContinuation(content[start + 1])

\* C8 witness: a boundary that was moved past a multi-byte character: the
\* chunk just emitted is longer than max_chunk and ends with a continuation byte.
C8_Witness ==
    /\ cpc = "loop"
    /\ start > 0
    /\ start < Len(content)
    /\ IsContinuation(content[start])
    /\ Len(chunks[Len(chunks)]) > max_chunk_size(Len(content))

\* C9 as stated: for a split point p of b, the chunks of b[0..p) followed by
\* the chunks of b[p..] are the chunks of b.
C9_Original == phase = "end" => left_chunks \o right_chunks = whole_chunks

\* b[0..p) and b give the same avg (hence the same min_chunk and max_chunk)
SameAverage(p, length) ==
    Max(MIN_PIECE_SIZE_TEXT, p \div SPLIT_PIECE_COUNT_TEXT)
        = Max(MIN_PIECE_SIZE_TEXT, length \div SPLIT_PIECE_COUNT_TEXT)

\* C9 amended: for a split point p of b such that b[0..p) and b have the same
\* avg, the chunks of b[0..p) are exactly the chunks of b before p.  (The
\* chunks of b[p..] need not be those of b after p: hash_val is carried over a
\* boundary, not restarted.)
C9_PrefixStable ==
    (phase \in {"right", "end"} /\ SameAverage(SplitPoint(split_k), Len(original)))
        => left_chunks = SubSeq(whole_chunks, 1, split_k)

\* C9 witness: the prefix reproduces its chunks and the suffix does not.
C9_Witness ==
    /\ phase = "end"
    /\ left_chunks = SubSeq(whole_chunks, 1, split_k)
    /\ right_chunks # SubSeq(whole_chunks, split_k + 1, Len(whole_chunks))

\* the chunks and the ids of the three runs
Runs == {[chunks |-> whole_chunks, ids |-> run_ids.whole],
         [chunks |-> left_chunks, ids |-> run_ids.left],
         [chunks |-> right_chunks, ids |-> run_ids.right]}

\* C14: the id of a chunk depends on the chunk's text only: process_document
\* returns one id per chunk, and two chunks with the same text, at any positions
\* of the same document or of different documents, have the same id.
C14_IdOfContentOnly ==
    \A r1 \in Runs, r2 \in Runs :
       /\ r1.ids # <<>> => DOMAIN r1.ids = DOMAIN r1.chunks
       /\ \A i \in DOMAIN r1.ids, j \in DOMAIN r2.ids :
             r1.chunks[i] = r2.chunks[j] => r1.ids[i] = r2.ids[j]

\* a chunk of the document original[p..] has the text of a chunk of the whole
\* document at another position, and the id process_document gave it there
C14_Witness ==
    /\ phase = "end"
    /\ \E i \in DOMAIN run_ids.whole, j \in DOMAIN run_ids.right :
          /\ i # j
          /\ whole_chunks[i] = right_chunks[j]
          /\ run_ids.whole[i] = run_ids.right[j]
          /\ \E k \in DOMAIN whole_chunks[i] : whole_chunks[i][k] >= 128

\* C15 as stated: the bytes hashed for a chunk are the chunk's text, "-", and
\* the decimal UTF-8 byte length of the chunk.
C15_Original ==
    \A r \in Runs : \A i \in DOMAIN r.ids :
       r.ids[i].hashed = r.chunks[i] \o <<45>> \o Decimal(Len(r.chunks[i]))

-----------------------------------------------------------------------------
(* Claims about push_documents and push_file, checked under Spec *)

MetaRequestPending == ppc \in {"rev", "put", "refetch", "retry"}

\* C1: the metadata PUT of a file (and the _rev lookup before it) is issued only
\* when every chunk upload of the file has completed and returned true; once an
\* upload has returned false or raised, the push of that file issues no metadata
\* PUT and ends with the result "error".
C1_MetadataAfterChunks ==
    /\ MetaRequestPending =>
          /\ collected = DOMAIN futures
          /\ \A i \in DOMAIN futures : futures[i] = "true"
          /\ ~obs.chunk_failed
    /\ obs.chunk_failed =>
          /\ obs.meta_puts = 0
          /\ obs.outcome \in {"none", "error"}
          /\ obs.outcome = "none" => ppc = "upload"

\* the second file failed on a chunk upload after the first one was stored with
\* all its chunks
C1_Witness ==
    /\ obs.path = LocalPaths[2]
    /\ obs.chunk_failed
    /\ obs.outcome = "error"
    /\ ppc = "loop"
    /\ db_docs[LocalPaths[1]].by = "tool"
    /\ Len(db_docs[LocalPaths[1]].children) >= 2

\* C2: in every state of the store, every chunk id in the children of a file
\* document that this tool wrote has a chunk document, whatever other writers
\* added in between and however earlier pushes ended.
C2_ChildrenExist ==
    \A p \in Paths :
        (db_docs[p].exists /\ db_docs[p].by = "tool") =>
            \A i \in DOMAIN db_docs[p].children : db_docs[p].children[i] \in db_chunks

\* a document of two chunks was stored after another writer had written and a
\* push had failed
C2_Witness ==
    /\ \E p \in Paths : /\ db_docs[p].exists
                        /\ db_docs[p].by = "tool"
                        /\ Len(db_docs[p].children) >= 2
    /\ others > 0
    /\ stats.errors > 0

\* C3 as stated: a push_file that returned after its first metadata PUT was
\* answered 409 has re-fetched _rev exactly once and issued exactly one retry
\* PUT (two metadata PUTs in all, never more), it reports an error only when the
\* store refused the retry, and no chunk upload is open during the retry.
C3_Original ==
    /\ obs.meta_puts <= 2
    /\ ppc \in {"refetch", "retry"} => collected = DOMAIN futures
    /\ (obs.first_conflict /\ obs.outcome \in {"created", "updated", "error"}) =>
          /\ obs.rev_refetches = 1
          /\ obs.meta_puts = 2

\* C4 as stated: no failure while one file is processed leaves the per-file loop.
C4_Original == obs.outcome # "raised"

\* C10: a file the loop has handled was skipped exactly if --force was not given,
\* the scan returned a document for its path and that document's mtime (an
\* integer, or a string read as one, else 0) is >= the local mtime; it was handed
\* to push_file exactly otherwise.  With --force nothing is skipped.
C10_SkipIffNotNewer ==
    obs.path # "" =>
        LET doc  == remote_docs[obs.path]
            ms   == IF doc.mtime.kind \in {"int", "str"} THEN doc.mtime.v ELSE 0
            cond == ~force /\ doc.exists /\ ms >= local_mtime[obs.path]
        IN  /\ (obs.outcome = "skipped") <=> cond
            /\ obs.pushed <=> ~cond
            /\ force => obs.outcome # "skipped"

\* a file was skipped whose remote mtime, a string, equals the local mtime, after
\* the file before it was pushed
C10_Witness ==
    /\ obs.outcome = "skipped"
    /\ obs.path = LocalPaths[2]
    /\ remote_docs[obs.path].mtime = StrMtime(1)
    /\ local_mtime[obs.path] = 1
    /\ stats.skipped = 1

-----------------------------------------------------------------------------
(* Claims about upload_chunk and the requests the tool writes with, checked under Spec *)

\* a step of the tool: every step of another writer counts itself in others
ToolStep == others' = others

\* C12: no step of the tool deletes a document of the database or replaces a
\* chunk document that exists: a file document that exists still exists after
\* the step, a chunk id stays, and the number of writes the database accepted
\* for an existing chunk stays what it was (the chunk PUT carries no _rev, so
\* the database refuses it).
C12_NoDeleteNoOverwrite ==
    [][ToolStep =>
          /\ \A p \in Paths : db_docs[p].exists => db_docs'[p].exists
          /\ db_chunks \subseteq db_chunks'
          /\ \A c \in db_chunks : chunk_rev'[c] = chunk_rev[c]]_vars

\* a chunk PUT was sent for an id that exists (put there by another writer after
\* the HEAD, or by the upload of an identical chunk) and the chunk is as it was
\* written the first time
C12_Witness ==
    /\ ppc = "upload"
    /\ conflicted # {}
    /\ \A i \in conflicted : chunk_rev[chunk_ids[i]] = 1

\* an upload that returned true on the reply to its HEAD
HeadHit(i) ==
    /\ i \in DOMAIN futures
    /\ i \in DOMAIN futures'
    /\ futures[i] = "head"
    /\ futures'[i] = "true"

\* the uploads of the file being pushed, as upload_chunk's callers see them: an
\* upload whose PUT was answered 409 returned true and the chunk is in the
\* database as it was written once; failed_chunks counts the uploads that
\* returned false or raised, and no others
UploadsCounted ==
    ppc = "upload" =>
        /\ \A i \in conflicted :
              /\ futures[i] = "true"
              /\ chunk_ids[i] \in db_chunks
              /\ chunk_rev[chunk_ids[i]] = 1
        /\ failed_chunks =
              Cardinality({i \in DOMAIN futures : futures[i] \in {"false", "raised"}})
        /\ (\A i \in DOMAIN futures : futures[i] = "true") => ~HasFailed(failed_chunks)

\* C13: upload_chunk returns true without a PUT when its HEAD finds the chunk
\* (the chunk is in the database and the step writes nothing), and returns true
\* when its PUT is answered 409: such an upload is not counted in failed_chunks,
\* so the push of the file goes on to the metadata when no other upload failed,
\* and the database holds the chunk of that id as it was written once.
\* UploadsCounted holds in every state (initially and after every step), and
\* every step in which a HEAD finds the chunk leaves the chunk documents alone.
C13_ExistingChunkIsSuccess ==
    /\ UploadsCounted
    /\ [][/\ UploadsCounted'
          /\ \A i \in DOMAIN futures : HeadHit(i) =>
                /\ chunk_ids[i] \in db_chunks
                /\ UNCHANGED <<db_chunks, chunk_rev>>]_vars

\* the race: the HEAD of an upload did not find the chunk, another writer stored
\* it, the PUT was answered 409; every upload of the file has returned true
C13_Witness ==
    /\ ppc = "upload"
    /\ conflicted # {}
    /\ others > 0
    /\ collected = DOMAIN futures
    /\ failed_chunks = 0
    /\ \E i \in conflicted : \A j \in DOMAIN chunk_ids : j # i => chunk_ids[j] # chunk_ids[i]

-----------------------------------------------------------------------------
(* Claims about a second push run, checked under SpecTwice *)

\* C11: in a second, non-forced run, a file whose document the scan finds as the
\* first run stored it (the file is unchanged, so its mtime is the stored one)
\* is skipped: push_file is not called for it, so no chunk upload is started,
\* and no metadata PUT is issued for it.
C11_SecondPushIdle ==
    (run = 2 /\ obs.path # "" /\ remote_docs[obs.path].by = "tool") =>
        /\ obs.outcome = "skipped"
        /\ ~obs.pushed
        /\ futures = <<>>
        /\ obs.meta_puts = 0

\* both files were stored with chunks by the first run and skipped by the second
C11_Witness ==
    /\ run = 2
    /\ ppc = "done"
    /\ stats.skipped = Len(LocalPaths)
    /\ \A p \in Paths : remote_docs[p].by = "tool" /\ Len(remote_docs[p].children) >= 1

-----------------------------------------------------------------------------
(* Claims about delete_orphan_files, checked under SpecOrphan *)

\* a file document of the database names the path
HasRemoteFileDocument(f) ==
    \E d \in remote : /\ ~StartsWith(d.id, "h:")
                      /\ ~StartsWith(d.id, "_")
                      /\ d.kind \in {"children", "data"}
                      /\ doc_path(d) = f

\* the local files the cleanup looks at: below a sync directory, not excluded,
\* below the --path prefix when one is given
InScope(f) ==
    /\ \E sync_dir \in SYNC_DIRECTORIES : StartsWith(f, sync_dir \o "/")
    /\ ~should_exclude(f)
    /\ path_filter = "" \/ StartsWith(f, path_filter)

\* C16 as stated: a run of delete_orphan_files without --dry-run has deleted
\* exactly the local files in scope whose path no remote file document names,
\* and no file whose path a remote file document names.
C16_Original ==
    (opc = "done" /\ ~orphan_dry) =>
        /\ deleted_files = {f \in fs_before : InScope(f) /\ ~HasRemoteFileDocument(f)}
        /\ \A f \in deleted_files : ~HasRemoteFileDocument(f)

\* C17: once the pruning walk of a deleted orphan is over, no directory above it
\* is left empty; every file and directory that exists has its directory (no
\* directory with an entry was removed); the vault root is never removed.
C17_PruneEmptyAncestors ==
    /\ opc \in {"loop", "done"} =>
          \A f \in deleted_files : \A d \in Ancestors(f) : d \in fs_dirs => ~IsEmptyDir(d)
    /\ \A x \in fs_files \cup fs_dirs : ParentOf(x) = VAULT_ROOT \/ ParentOf(x) \in fs_dirs
    /\ VAULT_ROOT \notin removed_dirs
    /\ removed_dirs \cap fs_dirs = {}

\* three nested directories were removed after the last file below them was
\* deleted, while a directory that kept an entry stayed
C17_Witness ==
    /\ opc = "done"
    /\ {"Notes/sub/deep", "Notes/sub", "Notes"} \subseteq removed_dirs
    /\ "articles/e.md" \in deleted_files
    /\ "articles" \in fs_dirs

-----------------------------------------------------------------------------
(* Claims about the enumeration of the remote documents, checked under SpecScan *)

\* the documents the enumeration is to return
FileDocuments ==
    {d \in remote : /\ ~StartsWith(d.id, "h:")
                    /\ ~StartsWith(d.id, "_")
                    /\ d.kind \in {"children", "data"}}

ScanDone == scan_q = Len(queries(path_filter))

-----------------------------------------------------------------------------
(* Claims about pull_documents, checked under SpecPull *)

\* C5 as stated: a document that phase 4 handled and that has a child without a
\* chunk document in the fetched set is skipped: nothing is written to its path.
C5_Original ==
    \A p \in Paths : (pull_obs[p].handled /\ pull_obs[p].missing > 0) => ~pull_obs[p].written

\* the local file of the path is at least as new as the remote document
LocalNotOlder(pth, doc) ==
    /\ local_files[pth].exists
    /\ doc.mtime.kind \in {"int", "str"}
    /\ local_files[pth].mtime >= doc.mtime.v

\* C19 as stated (pull has no --force): after the change filter a retained
\* document is left out of the documents to pull if and only if its local file
\* exists and is at least as new as the document, and no step of pull changes a
\* local file that is at least as new as the remote document of its path.
C19_Original ==
    /\ [](plc = "fetch" =>
            \A i \in DOMAIN documents :
               (\A j \in DOMAIN docs_to_pull : docs_to_pull[j] # documents[i])
                  <=> LocalNotOlder(documents[i].path, documents[i].doc))
    /\ [][\A pth \in Paths :
             (db_docs[pth].exists /\ LocalNotOlder(pth, db_docs[pth]))
                => local_files'[pth] = local_files[pth]]_vars

-----------------------------------------------------------------------------
(* Claims about the bulk requests of pull, checked under SpecBatch *)

Range(sq) == {sq[k] : k \in DOMAIN sq}

\* C20: every bulk request carries at most 500 ids, no id is in a request twice
\* or in two requests, only chunk ids of the documents to pull are requested,
\* and when batch_fetch_chunks has returned (or was not called because there is
\* no id) every chunk id of the documents to pull has been requested.
C20_EachIdOnce ==
    /\ \A r \in DOMAIN batch_requests :
          /\ Len(batch_requests[r]) <= 500
          /\ Cardinality(Range(batch_requests[r])) = Len(batch_requests[r])
          /\ Range(batch_requests[r]) \subseteq Range(referenced)
          /\ \A q \in DOMAIN batch_requests :
                q # r => Range(batch_requests[q]) \cap Range(batch_requests[r]) = {}
    /\ plc = "fetched" =>
          UNION {Range(batch_requests[r]) : r \in DOMAIN batch_requests} = Range(referenced)

\* three bulk requests were sent for two documents that share a chunk id, the
\* first of which also names one of its chunks twice
C20_Witness ==
    /\ plc = "fetched"
    /\ Len(batch_requests) = 3
    /\ Len(docs_to_pull) = 2
    /\ Len(referenced) >= Len(batch_ids) + 2

-----------------------------------------------------------------------------
(* Claims about concurrent writers and the metadata PUT, checked under Spec *)

\* the mtime of the stored document as the change detection reads it is not
\* older than the local file
RemoteNotOlder(p) ==
    /\ db_docs[p].exists
    /\ remote_mtime_ms(db_docs[p]) >= local_mtime[p]

\* C28 as stated: without --force no step of the tool replaces a file document
\* whose mtime is greater than or equal to the local file's mtime, also when
\* the document was written by another writer after the scan.
C28_Original ==
    [][(ToolStep /\ ~force) =>
          \A p \in Paths : RemoteNotOlder(p) => db_docs'[p] = db_docs[p]]_vars

\* the uploads of the current with block that have not returned
InFlight == {i \in DOMAIN futures : futures[i] \in {"queued", "head", "put"}}

\* outside the with block of push_file no upload is queued or running; when
\* push_file is entered nothing of an earlier file is left
NothingLeftOver ==
    /\ ppc # "upload" => InFlight = {}
    /\ ppc = "read" => /\ futures = <<>>
                       /\ collected = {}
                       /\ obs.meta_puts = 0

\* C22: the pushes of the files of a run are serialized.  NothingLeftOver holds
\* in every state; the with block is left only when every upload has returned;
\* and push_file is entered only from the loop of push_documents, after the
\* push_file of the file before has returned its result (its metadata PUT, if
\* any, answered).
C22_FilesSerialized ==
    /\ NothingLeftOver
    /\ [][/\ NothingLeftOver'
          /\ (ppc = "upload" /\ ppc' # "upload") => InFlight = {}
          /\ (ppc # "read" /\ ppc' = "read") =>
                /\ ppc = "loop"
                /\ ~MetaRequestPending
                /\ idx > 1 => obs.outcome \in {"skipped", "created", "updated", "error"}]_vars

\* push_file is entered for the second file after the first was stored with two
\* chunks through the conflict retry
C22_Witness ==
    /\ ppc = "read"
    /\ idx = 2
    /\ stats.created + stats.updated = 1
    /\ db_docs[LocalPaths[1]].by = "tool"
    /\ Len(db_docs[LocalPaths[1]].children) >= 2
    /\ others > 0

-----------------------------------------------------------------------------
(* Claims about the worker pool, checked under SpecPool *)

\* the uploads a worker is running: the HEAD or the PUT is outstanding
Running == {i \in DOMAIN futures : futures[i] \in {"head", "put"}}

\* C21: at every moment at most 10 chunk uploads are in flight, whatever the
\* number of chunks of the file; an upload waits in the queue only while 10
\* others are running.
C21_AtMostTenInFlight ==
    /\ Cardinality(Running) <= 10
    /\ (\E i \in DOMAIN futures : futures[i] = "queued") => Cardinality(Running) = 10

\* ten uploads of a file of more than ten chunks are running, one of them the
\* upload that waited in the queue until an earlier upload returned
C21_Witness ==
    /\ Len(futures) > 10
    /\ Cardinality(Running) = 10
    /\ \E i \in DOMAIN futures : futures[i] = "true"
    /\ \E i \in Running : i > 10

-----------------------------------------------------------------------------
(* The specified chunking algorithm, on unsigned 32-bit values held as
   <<hi, lo>> with 16 bits each; claims checked under SpecChunk *)

\* the 32 bits of a signed value
U32(h) == <<(h \div 65536) % 65536, h % 65536>>

\* the signed two's-complement reading of 32 bits
Signed32(x) == IF x[1] >= 32768 THEN (x[1] - 65536) * 65536 + x[2] ELSE x[1] * 65536 + x[2]

\* x + y, x * k (k < 2^15) and -x modulo 2^32
U32Add(x, y) ==
    LET lo == x[2] + y[2]
    IN  <<(x[1] + y[1] + lo \div 65536) % 65536, lo % 65536>>

U32Times(x, k) ==
    LET lo == x[2] * k
    IN  <<(x[1] * k + lo \div 65536) % 65536, lo % 65536>>

U32Neg(x) == U32Add(<<65535 - x[1], 65535 - x[2]>>, <<0, 1>>)

\* x * 31^n modulo 2^32
RECURSIVE TimesPow31(_, _)
TimesPow31(x, n) == IF n = 0 THEN x ELSE U32Times(TimesPow31(x, n - 1), 31)

\* 31^47 modulo 2^32, in three legs
Pow31_16 == TimesPow31(<<0, 1>>, 16)
Pow31_32 == TimesPow31(Pow31_16, 16)
SpecK == TimesPow31(Pow31_32, 15)

\* the hash after the byte b at position p of a chunk that starts at s
SpecHash(h, data, p, s) ==
    LET b == data[p + 1]
    IN  IF p - s < 48
        THEN Signed32(U32Add(U32Times(U32(h), 31), <<0, b>>))
        ELSE LET old == data[p - 48 + 1]
                 gone == U32Add(U32(h), U32Neg(U32Times(SpecK, old)))
             IN  Signed32(U32Add(U32Times(gone, 31), <<0, b>>))

SpecAvg(L) == IF L \div 20 > 128 THEN L \div 20 ELSE 128
SpecMaxChunk(L) == IF SpecAvg(L) * 5 < 250 * 1024 THEN SpecAvg(L) * 5 ELSE 250 * 1024
SpecMinChunk(L) ==
    LET low == IF SpecAvg(L) \div 4 < 20 THEN 20 ELSE SpecAvg(L) \div 4
    IN  IF low > SpecMaxChunk(L) THEN SpecMaxChunk(L) ELSE low

\* unsigned32(h) mod m
SpecMod(h, m) == ((U32(h)[1] % m) * (65536 % m) + U32(h)[2]) % m

SpecCandidate(size, h, L) ==
    \/ size >= SpecMinChunk(L) /\ SpecMod(h, SpecAvg(L)) = 1
    \/ size >= SpecMaxChunk(L)

\* the next byte is absent or is not a continuation byte (top two bits 10)
SpecAccepted(data, p) ==
    p + 1 >= Len(data) \/ (data[p + 2] \div 64) # 2

\* C25: split_into_chunks computes the specified algorithm.  It starts with
\* h = 0 at position 0; every iteration updates the hash as specified, emits
\* the bytes from the chunk start to the position as a chunk exactly at an
\* accepted boundary candidate (and then starts the next chunk after it), and
\* after the last byte the trailing bytes, if any, are the final chunk.
C25_ChunksAsSpecified ==
    /\ (cpc = "loop" /\ pos = 0) => (hash_val = 0 /\ start = 0 /\ chunks = <<>>)
    /\ [][/\ (cpc = "loop" /\ pos < Len(content)) =>
                LET h    == SpecHash(hash_val, content, pos, start)
                    size == pos - start + 1
                IN  /\ hash_val' = h
                    /\ pos' = pos + 1
                    /\ IF SpecCandidate(size, h, Len(content)) /\ SpecAccepted(content, pos)
                       THEN /\ chunks' = Append(chunks, SubSeq(content, start + 1, pos + 1))
                            /\ start' = pos + 1
                       ELSE /\ chunks' = chunks
                            /\ start' = start
          /\ (cpc = "loop" /\ pos >= Len(content)) =>
                /\ cpc' = "done"
                /\ chunks' = IF start < Len(content)
                             THEN Append(chunks, SubSeq(content, start + 1, Len(content)))
                             ELSE chunks]_vars

\* a finished run on a text with multi-byte characters that used the window
\* update (a chunk longer than 48 bytes) and took a boundary on the hash test
\* (that chunk is not the last and is shorter than max_chunk)
C25_Witness ==
    /\ cpc = "done"
    /\ \E i \in DOMAIN chunks : /\ i < Len(chunks)
                                 /\ Len(chunks[i]) > 48
                                 /\ Len(chunks[i]) < SpecMaxChunk(Len(content))
    /\ \E k \in DOMAIN content : content[k] >= 128

\* what split_into_chunks may do and return: each iteration reads inside the
\* data; the list returned is empty exactly when the input is, and none of its
\* chunks is empty
ReturnsChunks ==
    /\ (cpc = "loop") =>
          (/\ start <= pos
           /\ pos <= Len(content)
           /\ ((pos >= start + WINDOW_SIZE) => (pos - WINDOW_SIZE >= 0)))
    /\ (cpc = "done") =>
          (/\ (chunks = <<>>) <=> (content = <<>>)
           /\ \A i \in DOMAIN chunks : chunks[i] # <<>>)

\* C26: every call of split_into_chunks returns (each iteration moves pos one
\* byte on, up to the length of the input), and without error; the list
\* returned is empty exactly when the input is, and none of its chunks is
\* empty.
C26_TotalNoEmptyChunk ==
    /\ ReturnsChunks
    /\ [][/\ ReturnsChunks'
          /\ (cpc = "loop" /\ cpc' = "loop") => (pos' = pos + 1)]_vars
    /\ (cpc \in {"start", "loop"}) ~> (cpc = "done")

\* a run on a non-empty input whose last boundary is the end of the input:
\* nothing trails, and no empty chunk was added
C26_Witness ==
    /\ cpc = "done"
    /\ content # <<>>
    /\ start = Len(content)
    /\ Len(chunks) >= 1


-----------------------------------------------------------------------------
(* couchdb_request of vault-push.py and of vault-pull.py *)

\* the statuses a server answers with
Statuses == {200, 201, 400, 401, 404, 409, 412, 500}
IsSuccess(status) == status \in 200..299

push_excerpt == 500     \* raw[:500]
pull_excerpt == 2000    \* body[:2000] + "...<truncated>"

\* the body of an error answer: the number of characters strip() leaves of it,
\* and whether e.read() works
Responses ==
    {[status |-> st, stripped |-> n, readable |-> r] :
        st \in Statuses,
        n \in {0, 1, push_excerpt, push_excerpt + 1, pull_excerpt, pull_excerpt + 1},
        r \in BOOLEAN}

\* if e.code == 409: return {"error": "conflict", ...}
push_on_409(resp) == [kind |-> "Conflict", excerpt |-> 0, truncated |-> FALSE]

\* vault-push.py: the except branch of couchdb_request
push_http_error(resp) ==
    LET raw == IF resp.readable THEN resp.stripped ELSE 0
    IN  IF resp.status = 404 THEN [kind |-> "None", excerpt |-> 0, truncated |-> FALSE]
        ELSE IF resp.status = 409 THEN push_on_409(resp)
        ELSE [kind |-> "raised", excerpt |-> Min(raw, push_excerpt), truncated |-> FALSE]

\* vault-pull.py: the except branch of couchdb_request
pull_http_error(resp) ==
    LET body == IF resp.readable THEN resp.stripped ELSE 0
    IN  IF resp.status = 404 THEN [kind |-> "None", excerpt |-> 0, truncated |-> FALSE]
        ELSE [kind |-> "raised", excerpt |-> Min(body, pull_excerpt),
              truncated |-> body > pull_excerpt]

\* couchdb_request of vault-push.py, answered
PushRequest ==
    /\ req_pc = "call"
    /\ req_tool = "push"
    /\ req_result' = IF IsSuccess(req_resp.status)
                     THEN [kind |-> "json", excerpt |-> 0, truncated |-> FALSE]
                     ELSE push_http_error(req_resp)
    /\ req_pc' = IF req_result'.kind = "raised" THEN "raised" ELSE "returned"
    /\ UNCHANGED <<req_tool, req_resp, tripVars, chunkVars, harnessVars, dbVars, pushVars,
                   pullVars, runVars, logVars, orphanVars, scanVars, batchVars>>

\* couchdb_request of vault-pull.py, answered
PullRequest ==
    /\ req_pc = "call"
    /\ req_tool = "pull"
    /\ req_result' = IF IsSuccess(req_resp.status)
                     THEN [kind |-> "json", excerpt |-> 0, truncated |-> FALSE]
                     ELSE pull_http_error(req_resp)
    /\ req_pc' = IF req_result'.kind = "raised" THEN "raised" ELSE "returned"
    /\ UNCHANGED <<req_tool, req_resp, tripVars, chunkVars, harnessVars, dbVars, pushVars,
                   pullVars, runVars, logVars, orphanVars, scanVars, batchVars>>

InitRequest ==
    /\ ChunkerIdle
    /\ StoreEmpty
    /\ PushIdle
    /\ PullIdle
    /\ RunIdle
    /\ OrphanIdle
    /\ ScanIdle
    /\ BatchIdle
    /\ TripIdle
    /\ req_tool \in {"push", "pull"}
    /\ req_resp \in Responses
    /\ req_pc = "call"
    /\ req_result = NoResult

NextRequest == PushRequest \/ PullRequest

SpecRequest == InitRequest /\ [][NextRequest]_vars

\* the call is over, with a value or with an exception
Answered == req_pc \in {"returned", "raised"}

\* C23, as the specification states it: of either script, couchdb_request gives
\* None for a 404, the Conflict value (and no exception) for a 409, and raises
\* an error carrying an excerpt of the body for every other status that is not
\* 2xx.
C23_Original ==
    Answered =>
        /\ (req_resp.status = 404) => (req_result.kind = "None")
        /\ (req_resp.status = 409) => (req_result.kind = "Conflict")
        /\ (~IsSuccess(req_resp.status) /\ req_resp.status \notin {404, 409}) =>
              (/\ req_result.kind = "raised"
               /\ (req_resp.readable /\ req_resp.stripped > 0) => (req_result.excerpt > 0))

\* what holds of the push script's couchdb_request
C23_PushMapping ==
    (Answered /\ req_tool = "push") =>
        /\ (req_resp.status = 404) <=> (req_result.kind = "None")
        /\ (req_resp.status = 409) <=> (req_result.kind = "Conflict")
        /\ (req_pc = "raised") <=> (~IsSuccess(req_resp.status) /\ req_resp.status \notin {404, 409})
        /\ (req_pc = "raised") => (req_result.excerpt <= push_excerpt)

-----------------------------------------------------------------------------
(* One file pushed by vault-push.py, then pulled by vault-pull.py *)

\* Path.read_text(encoding='utf-8') reads with universal newlines: "\r\n" and
\* "\r" arrive as "\n".  The positions kept are all but a "\n" after a "\r".
KeptAt(b) == {i \in DOMAIN b : ~(b[i] = NEWLINE /\ i > 1 /\ b[i - 1] = 13)}

read_text(b) ==
    IF \A i \in DOMAIN b : b[i] # 13 THEN b
    ELSE LET keep   == KeptAt(b)
             nth(j) == CHOOSE i \in keep : Cardinality({k \in keep : k <= i}) = j
         IN  [j \in 1..Cardinality(keep) |-> IF b[nth(j)] = 13 THEN NEWLINE ELSE b[nth(j)]]

\* the base64 character of a 6-bit value
B64Char(v) ==
    CASE v < 26 -> 65 + v
      [] v \in 26..51 -> 71 + v
      [] v \in 52..61 -> v - 4
      [] v = 62 -> 43
      [] OTHER -> 47

\* one line of n base64 characters that vary with the seed
Base64Line(seed, n) ==
    [i \in 1..n |-> B64Char(((i - 1) * (i - 1) * seed + 3 * (i - 1) + 4 * seed) % 64)]

\* the files pushed: the empty file, the texts, short single lines that are
\* ("aGk=", "abcd") or are not ("abc", "a b!", "hi\n") base64, a line of base64
\* characters that is split into two chunks, a file with "\r\n", and a file
\* that is not UTF-8
TripFiles ==
    {TextInput(s, c) : s \in 1..MaxSeed, c \in 0..MaxCells}
    \cup {<<97, 71, 107, 61>>, <<97, 98, 99, 100>>, <<97, 98, 99>>, <<97, 32, 98, 33>>,
          <<104, 105, 10>>}
    \cup {Base64Line(5, 40)}
    \cup {<<97, 13, 10, 98>>}
    \cup {<<255>>}

\* content = abs_path.read_text(encoding='utf-8'), or the except branch
TripRead ==
    /\ trip_pc = "read"
    /\ IF ValidUtf8From(trip_file, 1)
       THEN /\ content' = read_text(trip_file)
            /\ cpc' = "start"
            /\ trip_pc' = "chunk"
       ELSE /\ trip_pc' = "error"
            /\ UNCHANGED <<content, cpc>>
    /\ UNCHANGED <<pos, start, hash_val, chunks, trip_file, trip_chunks, trip_doc, trip_puts,
                   trip_local, reqVars, harnessVars, dbVars, pushVars, pullVars, runVars,
                   logVars, orphanVars, scanVars, batchVars>>

\* upload_chunk's document for the i-th chunk
ChunkDoc(chs, i) == [id |-> chunk_id_at(chs, i), data |-> chs[i]]

\* the with-block of push_file: every chunk is uploaded unless a chunk of its id
\* is there; the uploads in `failed` fail
TripUpload ==
    /\ trip_pc = "chunk"
    /\ cpc = "done"
    /\ \E failed \in {{}} \cup {{i} : i \in DOMAIN chunks} :
          LET sent == {i \in DOMAIN chunks : i \notin failed
                          /\ \A d \in trip_chunks : d.id # chunk_id_at(chunks, i)}
          IN  /\ trip_chunks' = trip_chunks \cup {ChunkDoc(chunks, i) : i \in sent}
              /\ trip_puts' = trip_puts + Cardinality({chunk_id_at(chunks, i) : i \in sent})
              /\ trip_pc' = IF failed = {} THEN "meta" ELSE "error"
    /\ UNCHANGED <<trip_file, trip_doc, trip_local, reqVars, chunkVars, harnessVars, dbVars,
                   pushVars, pullVars, runVars, logVars, orphanVars, scanVars, batchVars>>

\* file_doc of push_file; size is stat.st_size of the file
file_doc(ids, size) == [children |-> ids, size |-> size, type |-> "plain"]

\* put_document(file_doc), accepted or not
TripMeta ==
    /\ trip_pc = "meta"
    /\ \E ok \in BOOLEAN :
          IF ok
          THEN /\ trip_doc' = file_doc(process_document_ids(chunks), Len(trip_file))
               /\ trip_pc' = "pushed"
          ELSE /\ trip_pc' = "error"
               /\ UNCHANGED trip_doc
    /\ UNCHANGED <<trip_file, trip_chunks, trip_puts, trip_local, reqVars, chunkVars,
                   harnessVars, dbVars, pushVars, pullVars, runVars, logVars, orphanVars,
                   scanVars, batchVars>>

TripRetained_NonEmpty(doc) ==
    \/ "children" \in DOMAIN doc /\ doc.children # <<>>
    \/ "data" \in DOMAIN doc /\ doc.data # <<>>

\* if 'children' in doc or 'data' in doc
TripRetained(doc) == "children" \in DOMAIN doc \/ "data" \in DOMAIN doc

\* chunk_cache.get(chunk_id): the data of the chunk document of that id
CachedData(store, id) ==
    IF \E d \in store : d.id = id THEN <<(CHOOSE d \in store : d.id = id).data>> ELSE <<>>

\* phase 4: content of a document, from its children or from its data
Assemble(doc, store) ==
    IF doc.children = <<>>
    THEN IF "data" \in DOMAIN doc THEN doc.data ELSE <<>>
    ELSE Concat([i \in DOMAIN doc.children |-> Concat(CachedData(store, doc.children[i]))])

\* pull_documents on the store the push left: the document is enumerated,
\* assembled, decoded and written
TripPull ==
    /\ trip_pc = "pushed"
    /\ IF TripRetained(trip_doc)
       THEN \E ok \in BOOLEAN :
               IF ok
               THEN LET decoded == try_decode_base64(Assemble(trip_doc, trip_chunks))
                    IN  /\ trip_local' = [exists |-> TRUE, bytes |-> decoded.bytes,
                                          binary |-> decoded.binary]
                        /\ trip_pc' = "pulled"
               ELSE /\ trip_pc' = "pull_error"
                    /\ UNCHANGED trip_local
       ELSE /\ trip_pc' = "pulled"
            /\ UNCHANGED trip_local
    /\ UNCHANGED <<trip_file, trip_chunks, trip_doc, trip_puts, reqVars, chunkVars,
                   harnessVars, dbVars, pushVars, pullVars, runVars, logVars, orphanVars,
                   scanVars, batchVars>>

InitTrip ==
    /\ ChunkerIdle
    /\ StoreEmpty
    /\ PushIdle
    /\ PullIdle
    /\ RunIdle
    /\ OrphanIdle
    /\ ScanIdle
    /\ BatchIdle
    /\ RequestIdle
    /\ trip_file \in TripFiles
    /\ trip_pc = "read"
    /\ trip_chunks = {}
    /\ trip_doc = NoTripDoc
    /\ trip_puts = 0
    /\ trip_local = NoTripFile

NextTrip ==
    \/ TripRead
    \/ ChunkEnter
    \/ ChunkLoop
    \/ ChunkTail
    \/ TripUpload
    \/ TripMeta
    \/ TripPull

SpecTrip == InitTrip /\ [][NextTrip]_vars

\* C24: of an empty file the chunker returns no chunk; the push uploads no chunk
\* and, when it succeeds, stores a file document with children = [] and
\* size = 0; the pull of that document writes an empty local file.
C24_EmptyFile ==
    (trip_pc # "idle" /\ trip_file = <<>>) =>
        /\ (cpc = "done") => (chunks = <<>>)
        /\ trip_puts = 0
        /\ trip_chunks = {}
        /\ (trip_pc = "error") => (trip_doc = NoTripDoc)
        /\ (trip_pc \in {"pushed", "pulled", "pull_error"}) =>
              (/\ trip_doc # NoTripDoc
               /\ trip_doc.children = <<>>
               /\ trip_doc.size = 0)
        /\ (trip_pc = "pulled") =>
              (trip_local = [exists |-> TRUE, bytes |-> <<>>, binary |-> FALSE])

\* the empty file, pushed and pulled
C24_Witness ==
    /\ trip_file = <<>>
    /\ trip_pc = "pulled"
    /\ cpc = "done"
    /\ trip_doc # NoTripDoc
    /\ trip_local.exists

\* C27, as the specification states it: after a successful push of a UTF-8 text
\* file and a pull of it, the local file holds exactly the bytes that were
\* pushed.
C27_Original ==
    (trip_pc = "pulled" /\ ValidUtf8From(trip_file, 1)) =>
        (trip_local.exists /\ trip_local.bytes = trip_file)

\* what holds: the round trip is exact for a file without "\r" whose text is
\* not one line of valid base64 of four or more characters
C27_ExactUnlessDecoded ==
    (/\ trip_pc = "pulled"
     /\ \A i \in DOMAIN trip_file : trip_file[i] # 13
     /\ try_decode_base64(trip_file).bytes = trip_file) =>
        (trip_local = [exists |-> TRUE, bytes |-> trip_file, binary |-> FALSE])

-----------------------------------------------------------------------------
(* The three tools: one run of vault-push.py (with any flags but --force
   alone, which changes nothing but the change detection), of vault-pull.py
   (some paths may be excluded) or of delete_orphan_files (without --path) *)

InitTools ==
    \/ Init /\ (dry_run \/ ~force)
    \/ InitPullOn(SUBSET {LocalPaths[2]})
    \/ InitOrphan /\ path_filter = ""

NextTools ==
    \/ Next
    \/ NextPull
    \/ NextOrphan

SpecTools == InitTools /\ [][NextTools]_vars

\* what a dry run has done so far: no upload submitted and no metadata PUT; no
\* file written; no file unlinked and no directory removed
DryUntouched ==
    /\ dry_run =>
          (/\ futures = <<>>
           /\ obs.meta_puts = 0
           /\ ppc \notin {"upload", "rev", "put", "refetch", "retry"})
    /\ pull_dry_run => (\A p \in Paths : ~pull_obs[p].written)
    /\ orphan_dry => (deleted_files = {} /\ removed_dirs = {} /\ fs_files = fs_before)

\* C29: in dry-run mode nothing is changed.  A step of a push with --dry-run
\* leaves the chunk documents and the file documents of the store alone (no
\* chunk PUT, no metadata PUT); a step of a pull with --dry-run leaves every
\* local file, its existence, bytes and mtime, alone; a step of the orphan
\* cleanup with --dry-run leaves the files and the directories alone.
C29_DryRunFrame ==
    /\ DryUntouched
    /\ [][/\ DryUntouched'
          /\ (dry_run /\ ToolStep) => UNCHANGED <<db_docs, db_chunks, chunk_rev>>
          /\ pull_dry_run => UNCHANGED local_files
          /\ orphan_dry => UNCHANGED <<fs_files, fs_dirs>>]_vars

\* a push with --dry-run that reported both files as to be created or updated
\* and returned
C29_Witness ==
    /\ dry_run
    /\ ppc = "done"
    /\ stats.created + stats.updated = Len(LocalPaths)
    /\ db_chunks = {}

Counted(st) == st.created + st.updated + st.skipped + st.errors

\* C30: when push_documents returns, and when pull_documents returns, each file
\* or document enumerated was counted once: created + updated + skipped +
\* errors = total, and total is the number enumerated.  While push_documents
\* runs, the files counted are the files it is through with.
C30_CountsAddUp ==
    /\ (ppc = "done") =>
          (stats.total = Len(LocalPaths) /\ Counted(stats) = stats.total)
    /\ (ppc \in {"loop", "read", "upload", "rev", "put", "refetch", "retry"}) =>
          (Counted(stats) = idx - 1)
    /\ (plc = "done") =>
          (pull_stats.total = Len(documents) /\ Counted(pull_stats) = pull_stats.total)

\* a pull that returned after counting one excluded document and one written
\* document
C30_Witness ==
    /\ plc = "done"
    /\ pull_stats.total = 2
    /\ pull_stats.skipped = 1
    /\ pull_excluded # {}
    /\ pull_stats.created + pull_stats.updated + pull_stats.errors = 1

=============================================================================
